---------------------------- MODULE Spec2Model ----------------------------
(***************************************************************************)
(* octocode-utils: the two jsonToLLMString serializers.                    *)
(*                                                                         *)
(*  - the positional-argument serializer                                   *)
(*      packages/octocode-utils/src/jsonToLLMString.ts                     *)
(*    (data, indentation, maxDepth, visited, parentKey, maxLength,         *)
(*     maxArrayItems), modelled as a machine with an explicit call stack   *)
(*    and the shared `visited` set;                                        *)
(*  - the options-based serializer (unnamed/part_004)                      *)
(*    (data, options), modelled as normalise -> format -> budget.          *)
(*                                                                         *)
(* JavaScript strings are TLA+ strings; TLC evaluates Len, \o, SubSeq,      *)
(* Head and Tail on them, so lengths, prefixes and substrings are those of *)
(* the program's text.                                                     *)
(***************************************************************************)
EXTENDS Integers, Sequences, FiniteSets, TLC

VARIABLES
    heap,        \* the caller's object graph: node id -> [kind, keys, vals]
    root,        \* the `data` argument (a scalar or a reference into heap)
    pargs,       \* positional arguments: [maxDepth, maxLength, maxArrayItems]
    options,     \* the options argument of the options-based serializer
    pc,          \* position of the call
    stack,       \* positional serializer: active invocations, innermost last
    visited,     \* positional serializer: the shared Set `visited`
    normalized,  \* options serializer: normalizedData
    full,        \* options serializer: `${PREFIX}\n${body}`
    result,      \* what the call returned or threw
    calls        \* the calls made before this one: [root, pargs, result]

vars == <<heap, root, pargs, options, pc, stack, visited, normalized, full, result, calls>>

-----------------------------------------------------------------------------
(* String primitives of the JavaScript runtime.                            *)

Min(a, b) == IF a < b THEN a ELSE b
Max(a, b) == IF a > b THEN a ELSE b

\* s[i-1]
Char(s, i) == SubSeq(s, i, i)

\* s.substring(0, n)
Substring0(s, n) == SubSeq(s, 1, Min(Max(n, 0), Len(s)))

\* s.includes(pat)
Includes(s, pat) ==
    \E i \in 1..(Len(s) - Len(pat) + 1) : SubSeq(s, i, i + Len(pat) - 1) = pat

\* s.startsWith(pat), s.endsWith(pat)
StartsWith(s, pat) == Len(pat) <= Len(s) /\ SubSeq(s, 1, Len(pat)) = pat
EndsWith(s, pat) ==
    Len(pat) <= Len(s) /\ SubSeq(s, Len(s) - Len(pat) + 1, Len(s)) = pat

\* s.repeat(n)
RECURSIVE Repeat(_, _)
Repeat(s, n) == IF n <= 0 THEN "" ELSE s \o Repeat(s, n - 1)

\* parts.join(sep)
RECURSIVE Join(_, _)
Join(parts, sep) ==
    IF Len(parts) = 0 THEN ""
    ELSE IF Len(parts) = 1 THEN parts[1]
    ELSE parts[1] \o sep \o Join(Tail(parts), sep)

\* String(n) for an integer n
RECURSIVE NatToString(_)
NatToString(n) ==
    IF n < 10 THEN Char("0123456789", n + 1)
    ELSE NatToString(n \div 10) \o Char("0123456789", (n % 10) + 1)

IntToString(n) == IF n < 0 THEN "-" \o NatToString(0 - n) ELSE NatToString(n)

\* seq.filter(keep), for a set of kept indices
RECURSIVE FilterIdx(_, _, _)
FilterIdx(seq, keep, i) ==
    IF i > Len(seq) THEN <<>>
    ELSE (IF i \in keep THEN <<seq[i]>> ELSE <<>>) \o FilterIdx(seq, keep, i + 1)

-----------------------------------------------------------------------------
(* The value model.  A JavaScript value is a scalar record [t, v] or a     *)
(* reference [t |-> "ref", v |-> id] to a heap node, which is an object    *)
(* (ordered keys, one value each) or an array.  Identity is the node id.   *)

Null == [t |-> "null", v |-> 0]
Undefined == [t |-> "undefined", v |-> 0]
Bool(b) == [t |-> "bool", v |-> b]
\* A number: c is "finite" (v its integer value), "nan", "inf", "-inf" or "-0".
Num(n) == [t |-> "num", c |-> "finite", v |-> n]
NaN == [t |-> "num", c |-> "nan", v |-> 0]
PosInfinity == [t |-> "num", c |-> "inf", v |-> 0]
NegInfinity == [t |-> "num", c |-> "-inf", v |-> 0]
NegZero == [t |-> "num", c |-> "-0", v |-> 0]
Str(s) == [t |-> "str", v |-> s]
Ref(n) == [t |-> "ref", v |-> n]

ObjNode(ks, vs) == [kind |-> "obj", keys |-> ks, vals |-> vs]
ArrNode(vs) == [kind |-> "arr", keys |-> <<>>, vals |-> vs]


\* A parsed JSON tree: scalars as above, and containers by value.
TArr(items) == [t |-> "arr", v |-> items]
TObj(ks, vs) == [t |-> "obj", k |-> ks, v |-> vs]
IsContainer(x) == x.t \in {"arr", "obj"}


-----------------------------------------------------------------------------
(* The options-based serializer (unnamed/part_004).                        *)

PREFIX ==
    "#converted from json # Format: 2-space indents per level. Objects: key value. Simple arrays: [item, item]. Complex arrays: indented items."

\* JSON_TO_LLM_DEFAULT_OPTIONS
JSON_TO_LLM_DEFAULT_OPTIONS ==
    [ignoreFalsy |-> TRUE, maxDepth |-> 10, sortKeys |-> "asc",
     maxChars |-> PosInfinity, arrayFormat |-> "auto"]

\* options?.name ?? JSON_TO_LLM_DEFAULT_OPTIONS.name; an option left out of
\* the record `opts` is undefined.
OptionOrDefault(opts, name) ==
    IF name \in DOMAIN opts THEN opts[name] ELSE JSON_TO_LLM_DEFAULT_OPTIONS[name]

\* const cfg = {...}
BuildCfg(opts) ==
    [ignoreFalsy |-> OptionOrDefault(opts, "ignoreFalsy"),
     maxDepth |-> OptionOrDefault(opts, "maxDepth"),
     sortKeys |-> OptionOrDefault(opts, "sortKeys"),
     maxChars |-> OptionOrDefault(opts, "maxChars"),
     arrayFormat |-> OptionOrDefault(opts, "arrayFormat")]

\* What JSON.stringify / JSON.parse throw (V8's messages, the runtime the
\* package's tests run on).
CircularMessage == "Converting circular structure to JSON"
NotJsonMessage == "\"undefined\" is not valid JSON"

StringifyFailed(msg) == [t |-> "error", v |-> msg]

\* JSON.stringify keeping every number as it is.
NormalizeScalarKeeping(x) == x

\* JSON.stringify's rendering of a scalar, read back by JSON.parse: NaN and
\* the infinities become null, negative zero becomes 0.
NormalizeScalar(x) ==
    IF x.t = "num" THEN (IF x.c \in {"nan", "inf", "-inf"} THEN Null
                         ELSE IF x.c = "-0" THEN Num(0) ELSE x)
    ELSE x

\* JSON.parse(JSON.stringify(x)) below the root: a tree by value, undefined
\* for an undefined value, or the error of a reference to a node on the
\* path from the root (`anc`).
RECURSIVE NormalizeValue(_, _, _)
NormalizeValue(h, x, anc) ==
    IF x.t # "ref" THEN NormalizeScalar(x)
    ELSE IF x.v \in anc THEN StringifyFailed(CircularMessage)
    ELSE LET node == h[x.v]
             kids == [i \in 1..Len(node.vals) |->
                         NormalizeValue(h, node.vals[i], anc \cup {x.v})]
             bad == {i \in 1..Len(node.vals) : kids[i].t = "error"}
             keep == {i \in 1..Len(node.vals) : kids[i].t # "undefined"}
         IN IF bad # {} THEN kids[CHOOSE i \in bad : \A j \in bad : i <= j]
            ELSE IF node.kind = "arr"
                 THEN TArr([i \in 1..Len(node.vals) |->
                              IF kids[i].t = "undefined" THEN Null ELSE kids[i]])
                 ELSE TObj(FilterIdx(node.keys, keep, 1), FilterIdx(kids, keep, 1))

\* normalizedData = JSON.parse(JSON.stringify(data)): JSON.stringify(undefined)
\* is undefined, which JSON.parse rejects.
NormalizeData(h, x) ==
    IF x.t = "undefined" THEN StringifyFailed(NotJsonMessage)
    ELSE NormalizeValue(h, x, {})

\* The message test with a capital C.
NormalizeErrorMessageCapital(msg) ==
    IF Includes(msg, "Circular")
    THEN "Circular structure detected - cannot serialize to JSON"
    ELSE "JSON serialization failed - " \o msg

\* The catch block of the normalisation: the message of the Error thrown.
NormalizeErrorMessage(msg) ==
    IF Includes(msg, "circular")
    THEN "Circular structure detected - cannot serialize to JSON"
    ELSE "JSON serialization failed - " \o msg

indentUnit == Repeat(" ", 2)

\* A JavaScript string is a sequence of UTF-16 code units. The texts of the
\* model that TLA+ can write as strings hold printable ASCII characters
\* (the grave accent, code 96, excepted) and \n, \r, \t, \f only;
\* escapeString is defined on code units, so that every character has a
\* model.
AsciiFromSpace == " !\"#$%&'()*+,-./0123456789:;<=>?@ABCDEFGHIJKLMNOPQRSTUVWXYZ[\\]^_"
AsciiFromLowerA == "abcdefghijklmnopqrstuvwxyz{|}~"

\* The position of ch in text, 0 if absent.
IndexIn(ch, text) ==
    LET hits == {i \in 1..Len(text) : SubSeq(text, i, i) = ch}
    IN IF hits = {} THEN 0 ELSE CHOOSE i \in hits : TRUE

\* ch.charCodeAt(0)
charCodeAt(ch) ==
    CASE ch = "\t" -> 9
      [] ch = "\n" -> 10
      [] ch = "\f" -> 12
      [] ch = "\r" -> 13
      [] IndexIn(ch, AsciiFromSpace) > 0 -> 31 + IndexIn(ch, AsciiFromSpace)
      [] IndexIn(ch, AsciiFromLowerA) > 0 -> 96 + IndexIn(ch, AsciiFromLowerA)

\* String.fromCharCode(code), for the code units a TLA+ string can hold
fromCharCode(code) ==
    CASE code = 9 -> "\t"
      [] code = 10 -> "\n"
      [] code = 12 -> "\f"
      [] code = 13 -> "\r"
      [] code >= 32 /\ code <= 95 -> SubSeq(AsciiFromSpace, code - 31, code - 31)
      [] code >= 97 /\ code <= 126 -> SubSeq(AsciiFromLowerA, code - 96, code - 96)

\* The code units of a text, and the text of code units.
ToCodes(text) == [i \in 1..Len(text) |-> charCodeAt(SubSeq(text, i, i))]

RECURSIVE ToText(_)
ToText(codes) ==
    IF Len(codes) = 0 THEN "" ELSE fromCharCode(Head(codes)) \o ToText(Tail(codes))

HexDigits == "0123456789abcdef"

\* code.toString(16)
RECURSIVE toString16(_)
toString16(code) ==
    IF code < 16 THEN SubSeq(HexDigits, code + 1, code + 1)
    ELSE toString16(code \div 16) \o SubSeq(HexDigits, (code % 16) + 1, (code % 16) + 1)

\* text.padStart(2, '0')
padStart2(text) == IF Len(text) < 2 THEN Repeat("0", 2 - Len(text)) \o text ELSE text

\* The default case testing code < 0x20 only.
EscapeOfCodeBelowSpace(code) ==
    CASE code = 92 -> ToCodes("\\\\")
      [] code = 34 -> ToCodes("\\\"")
      [] code = 10 -> ToCodes("\\n")
      [] code = 13 -> ToCodes("\\r")
      [] code = 9 -> ToCodes("\\t")
      [] code = 8 -> ToCodes("\\b")
      [] code = 12 -> ToCodes("\\f")
      [] code = 11 -> ToCodes("\\v")
      [] code = 0 -> ToCodes("\\0")
      [] OTHER -> IF code < 32
                  THEN ToCodes("\\x" \o padStart2(toString16(code)))
                  ELSE <<code>>

\* The backslash left as it is.
EscapeOfCodeRawBackslash(code) ==
    CASE code = 34 -> ToCodes("\\\"")
      [] code = 10 -> ToCodes("\\n")
      [] code = 13 -> ToCodes("\\r")
      [] code = 9 -> ToCodes("\\t")
      [] code = 8 -> ToCodes("\\b")
      [] code = 12 -> ToCodes("\\f")
      [] code = 11 -> ToCodes("\\v")
      [] code = 0 -> ToCodes("\\0")
      [] OTHER -> IF code < 32 \/ code = 127
                  THEN ToCodes("\\x" \o padStart2(toString16(code)))
                  ELSE <<code>>

\* What one iteration of the loop of escapeString appends for the code
\* unit `code`, as code units.
EscapeOfCode(code) ==
    CASE code = 92 -> ToCodes("\\\\")
      [] code = 34 -> ToCodes("\\\"")
      [] code = 10 -> ToCodes("\\n")
      [] code = 13 -> ToCodes("\\r")
      [] code = 9 -> ToCodes("\\t")
      [] code = 8 -> ToCodes("\\b")
      [] code = 12 -> ToCodes("\\f")
      [] code = 11 -> ToCodes("\\v")
      [] code = 0 -> ToCodes("\\0")
      [] OTHER -> IF code < 32 \/ code = 127
                  THEN ToCodes("\\x" \o padStart2(toString16(code)))
                  ELSE <<code>>

\* escapeString on code units
RECURSIVE escapeCodes(_)
escapeCodes(codes) ==
    IF Len(codes) = 0 THEN <<>>
    ELSE EscapeOfCode(Head(codes)) \o escapeCodes(Tail(codes))

\* escapeString on one character of a text
EscapeChar(ch) == ToText(EscapeOfCode(charCodeAt(ch)))

RECURSIVE escapeString(_)
escapeString(value) ==
    IF Len(value) = 0 THEN ""
    ELSE EscapeChar(Char(value, 1)) \o escapeString(Tail(value))

formatString(value) == "\"" \o escapeString(value) \o "\""

formatPrimitive(value) ==
    IF value.t = "null" THEN "null"
    ELSE IF value.t = "str" THEN formatString(value.v)
    ELSE IF value.t = "num"
         THEN (IF value.c = "nan" THEN "NaN"
               ELSE IF value.c = "inf" THEN "Infinity"
               ELSE IF value.c = "-inf" THEN "-Infinity"
               ELSE IF value.c = "-0" THEN "-0"
               ELSE IntToString(value.v))
    ELSE IF value.t = "bool" THEN (IF value.v THEN "true" ELSE "false")
    ELSE "undefined"


\* a.localeCompare(b) < 0, for keys over digits and lower-case letters, where
\* the collation order is the order of this alphabet and a proper prefix
\* sorts first.
CollationOrder == "0123456789abcdefghijklmnopqrstuvwxyz"

CollationRank(ch) ==
    CHOOSE i \in 1..Len(CollationOrder) : Char(CollationOrder, i) = ch

RECURSIVE LocaleLess(_, _)
LocaleLess(a, b) ==
    IF Len(b) = 0 THEN FALSE
    ELSE IF Len(a) = 0 THEN TRUE
    ELSE IF Char(a, 1) = Char(b, 1) THEN LocaleLess(Tail(a), Tail(b))
    ELSE CollationRank(Char(a, 1)) < CollationRank(Char(b, 1))

\* Array.prototype.sort with a comparator (stable): insertion of each key
\* after the keys that do not sort after it.
RECURSIVE InsertSorted(_, _, _)
InsertSorted(sorted, key, desc) ==
    IF Len(sorted) = 0 THEN <<key>>
    ELSE IF (IF desc THEN LocaleLess(Head(sorted), key)
                     ELSE LocaleLess(key, Head(sorted)))
         THEN <<key>> \o sorted
         ELSE <<Head(sorted)>> \o InsertSorted(Tail(sorted), key, desc)

RECURSIVE SortWith(_, _)
SortWith(keys, desc) ==
    IF Len(keys) = 0 THEN <<>>
    ELSE InsertSorted(SortWith(SubSeq(keys, 1, Len(keys) - 1), desc),
                      keys[Len(keys)], desc)

\* The two sorted orders exchanged.
SortKeysExchanged(keys, cfg) ==
    IF cfg.sortKeys = "asc" THEN SortWith(keys, TRUE)
    ELSE IF cfg.sortKeys = "desc" THEN SortWith(keys, FALSE)
    ELSE keys

\* if (cfg.sortKeys === 'asc') ... else if (cfg.sortKeys === 'desc') ...
SortKeys(keys, cfg) ==
    IF cfg.sortKeys = "asc" THEN SortWith(keys, FALSE)
    ELSE IF cfg.sortKeys = "desc" THEN SortWith(keys, TRUE)
    ELSE keys

\* The depth check one level late.
DepthExceededLate(depth, cfg) == depth > cfg.maxDepth + 1

\* if (depth > cfg.maxDepth) return '[Max depth reached]'
DepthExceeded(depth, cfg) == depth > cfg.maxDepth

\* Nothing is dropped.
KeptAlways(item, cfg) == TRUE

\* ignoreFalsy dropping every falsy value.
KeptUnlessFalsy(item, cfg) ==
    ~(cfg.ignoreFalsy /\ (\/ item.t = "null"
                          \/ item = Bool(FALSE)
                          \/ item = Str("")
                          \/ (item.t = "num" /\ item.v = 0)))

\* The filter of effectiveItems and effectiveKeys: is this value kept?
KeptByIgnoreFalsy(item, cfg) == ~(cfg.ignoreFalsy /\ item.t = "null")

\* value.filter(...): the indices of the items kept
EffectiveItemIdx(items, cfg) ==
    {i \in 1..Len(items) : KeptByIgnoreFalsy(items[i], cfg)}

\* Every key kept, whatever its value.
EffectiveKeysAll(obj, cfg) == obj.k

\* keys.filter(...): the kept keys, in the object's order
EffectiveKeys(obj, cfg) ==
    FilterIdx(obj.k, {i \in 1..Len(obj.k) : KeptByIgnoreFalsy(obj.v[i], cfg)}, 1)

\* obj[key]
Lookup(obj, key) == obj.v[CHOOSE i \in 1..Len(obj.k) : obj.k[i] = key]

\* Auto mode taking empty containers for primitives.
shouldUseBracketsForEmpty(effectiveItems, cfg) ==
    IF cfg.arrayFormat = "brackets" THEN TRUE
    ELSE IF cfg.arrayFormat = "indented" THEN FALSE
    ELSE \A i \in 1..Len(effectiveItems) :
             \/ ~IsContainer(effectiveItems[i])
             \/ Len(effectiveItems[i].v) = 0

shouldUseBrackets(effectiveItems, cfg) ==
    IF cfg.arrayFormat = "brackets" THEN TRUE
    ELSE IF cfg.arrayFormat = "indented" THEN FALSE
    ELSE \A i \in 1..Len(effectiveItems) : ~IsContainer(effectiveItems[i])

\* The depth at which the items of a bracket-format array are formatted.
BracketItemDepth(depth) == depth

\* The depth at which the items of an indented array are formatted.
IndentedItemDepth(depth) == depth + 1

\* One item of an indented array, given its rendering.
IndentedItem(item, rendered, depth) ==
    IF Includes(rendered, "\n") THEN rendered
    ELSE IF IsContainer(item) /\ ~StartsWith(rendered, "[")
            /\ rendered # "EmptyObject" /\ rendered # "EmptyArray"
         THEN rendered
         ELSE Repeat(indentUnit, depth + 1) \o rendered

\* Only scalars inline.
shouldBeInlineForScalars(val, rendered) == ~IsContainer(val)

shouldBeInline(val, rendered) ==
    IF ~IsContainer(val) THEN TRUE
    ELSE IF rendered = "EmptyArray" \/ rendered = "EmptyObject" THEN TRUE
    ELSE val.t = "arr" /\ StartsWith(rendered, "[") /\ EndsWith(rendered, "]")
         /\ ~Includes(rendered, "\n")

\* The line or lines of one property, given the rendering of its value.
PropertyLines(key, val, rendered, depth) ==
    IF rendered = "" THEN <<>>
    ELSE IF shouldBeInline(val, rendered)
         THEN <<Repeat(indentUnit, depth) \o key \o " " \o rendered>>
         ELSE <<Repeat(indentUnit, depth) \o key, rendered>>

RECURSIVE Flatten(_)
Flatten(seqs) == IF Len(seqs) = 0 THEN <<>> ELSE Head(seqs) \o Flatten(Tail(seqs))

RECURSIVE formatValue(_, _, _)
formatValue(value, depth, cfg) ==
    IF DepthExceeded(depth, cfg) THEN "[Max depth reached]"
    ELSE IF value.t = "arr" THEN
        IF Len(value.v) = 0 THEN "EmptyArray"
        ELSE LET effectiveItems ==
                     FilterIdx(value.v, EffectiveItemIdx(value.v, cfg), 1)
             IN IF Len(effectiveItems) = 0 THEN "EmptyArray"
                ELSE IF shouldUseBrackets(effectiveItems, cfg)
                THEN LET renderedItems ==
                             [i \in 1..Len(effectiveItems) |->
                                 formatValue(effectiveItems[i],
                                             BracketItemDepth(depth), cfg)]
                     IN "[" \o Join(renderedItems, ", ") \o "]"
                ELSE LET renderedItems ==
                             [i \in 1..Len(effectiveItems) |->
                                 IndentedItem(effectiveItems[i],
                                     formatValue(effectiveItems[i],
                                                 IndentedItemDepth(depth), cfg),
                                     depth)]
                         arrayIndent == Repeat(indentUnit, depth)
                     IN arrayIndent \o "[\n" \o Join(renderedItems, "\n")
                          \o "\n" \o arrayIndent \o "]"
    ELSE IF value.t = "obj" THEN
        LET effectiveKeys == EffectiveKeys(value, cfg)
        IN IF Len(effectiveKeys) = 0 THEN "EmptyObject"
           ELSE LET ordered == SortKeys(effectiveKeys, cfg)
                    lines == [i \in 1..Len(ordered) |->
                                 PropertyLines(ordered[i], Lookup(value, ordered[i]),
                                     formatValue(Lookup(value, ordered[i]),
                                                 depth + 1, cfg),
                                     depth)]
                IN Join(Flatten(lines), "\n")
    ELSE formatPrimitive(value)

\* const full = `${PREFIX}\n${body}`
FullText(body) == PREFIX \o "\n" \o body

\* const footer = `\n[Output truncated at ${cfg.maxChars} chars]`
Footer(cfg) == "\n[Output truncated at " \o IntToString(cfg.maxChars.v) \o " chars]"

\* Number.isFinite(cfg.maxChars)
IsFinite(n) == n.t = "num" /\ n.c \in {"finite", "-0"}

\* The text and its footer cut together at maxChars.
ApplyBudgetCutting(text, cfg) ==
    IF IsFinite(cfg.maxChars) /\ Len(text) > cfg.maxChars.v
    THEN Substring0(Substring0(text, Max(0, cfg.maxChars.v - Len(Footer(cfg))))
                        \o Footer(cfg), cfg.maxChars.v)
    ELSE text

\* The maxChars truncation of the final text.
ApplyBudget(text, cfg) ==
    IF IsFinite(cfg.maxChars) /\ Len(text) > cfg.maxChars.v
    THEN Substring0(text, Max(0, cfg.maxChars.v - Len(Footer(cfg)))) \o Footer(cfg)
    ELSE text


-----------------------------------------------------------------------------
(* One call of the options-based serializer.                               *)

NoResult == [kind |-> "none", value |-> ""]
Returned(text) == [kind |-> "return", value |-> text]
Threw(msg) == [kind |-> "throw", value |-> msg]

\* The state before a call on input `inp` = [heap, root, options, pargs].
CallState(inp, start) ==
    /\ heap = inp.heap
    /\ root = inp.root
    /\ options = inp.options
    /\ pargs = inp.pargs
    /\ pc = start
    /\ stack = <<>>
    /\ visited = {}
    /\ normalized = Undefined
    /\ full = ""
    /\ result = NoResult
    /\ calls = <<>>

\* normalizedData = JSON.parse(JSON.stringify(data)), or the Error thrown
O_Normalize ==
    /\ pc = "o_start"
    /\ LET n == NormalizeData(heap, root)
       IN IF n.t = "error"
          THEN /\ result' = Threw(NormalizeErrorMessage(n.v))
               /\ pc' = "done"
               /\ UNCHANGED normalized
          ELSE /\ normalized' = n
               /\ pc' = "o_normalized"
               /\ UNCHANGED result
    /\ UNCHANGED <<heap, root, pargs, options, calls, stack, visited, full>>

\* const body = formatValue(normalizedData, 0, 'root'); const full = ...
O_Format ==
    /\ pc = "o_normalized"
    /\ full' = FullText(formatValue(normalized, 0, BuildCfg(options)))
    /\ pc' = "o_formatted"
    /\ UNCHANGED <<heap, root, pargs, options, calls, stack, visited, normalized, result>>

\* the truncation to maxChars and the return
O_Budget ==
    /\ pc = "o_formatted"
    /\ result' = Returned(ApplyBudget(full, BuildCfg(options)))
    /\ pc' = "done"
    /\ UNCHANGED <<heap, root, pargs, options, calls, stack, visited, normalized, full>>

NextO == O_Normalize \/ O_Format \/ O_Budget

-----------------------------------------------------------------------------
(* The positional-argument serializer:                                     *)
(*   jsonToLLMString(data, indentation, maxDepth, visited, parentKey,      *)
(*                   maxLength, maxArrayItems)                             *)
(* Values are scalars, references to heap nodes, or the containers         *)
(* JSON.parse builds (TArr, TObj). Date, RegExp and function values are    *)
(* not among the values drawn.                                             *)

LowerCaseLetters == "abcdefghijklmnopqrstuvwxyz"
UpperCaseLetters == "ABCDEFGHIJKLMNOPQRSTUVWXYZ"

\* The position of ch in alphabet, 0 if absent.
LetterIndex(ch, alphabet) ==
    LET hits == {i \in 1..Len(alphabet) : Char(alphabet, i) = ch}
    IN IF hits = {} THEN 0 ELSE CHOOSE i \in hits : TRUE

ToUpperChar(ch) ==
    LET i == LetterIndex(ch, LowerCaseLetters)
    IN IF i = 0 THEN ch ELSE Char(UpperCaseLetters, i)

ToLowerChar(ch) ==
    LET i == LetterIndex(ch, UpperCaseLetters)
    IN IF i = 0 THEN ch ELSE Char(LowerCaseLetters, i)

\* key.toLowerCase()
RECURSIVE toLowerCase(_)
toLowerCase(s) ==
    IF s = "" THEN "" ELSE ToLowerChar(Char(s, 1)) \o toLowerCase(SubSeq(s, 2, Len(s)))

labelMap ==
    [path |-> "File", size |-> "Size", data |-> "Contents", content |-> "Content",
     text |-> "Text", body |-> "Body", message |-> "Message",
     items |-> "Items", children |-> "Subitems", files |-> "Files",
     results |-> "Results", matches |-> "Matches",
     type |-> "Type", name |-> "Name", value |-> "Value",
     description |-> "Description", title |-> "Title", summary |-> "Summary",
     owner |-> "Owner", repo |-> "Repository", branch |-> "Branch",
     commit |-> "Commit", sha |-> "SHA", author |-> "Author",
     created |-> "Created", updated |-> "Updated", pushed |-> "Last Pushed",
     stars |-> "Stars", forks |-> "Forks", language |-> "Language",
     topics |-> "Topics", license |-> "License",
     version |-> "Version", package |-> "Package",
     dependencies |-> "Dependencies", devdependencies |-> "Dev Dependencies",
     scripts |-> "Scripts", engines |-> "Engines", keywords |-> "Keywords",
     homepage |-> "Homepage", repository |-> "Repository", bugs |-> "Bugs",
     maintainers |-> "Maintainers",
     id |-> "ID", url |-> "URL", link |-> "Link", email |-> "Email",
     phone |-> "Phone", address |-> "Address", city |-> "City",
     country |-> "Country", date |-> "Date", time |-> "Time",
     timestamp |-> "Timestamp",
     status |-> "Status", state |-> "State", active |-> "Active",
     enabled |-> "Enabled", visible |-> "Visible", public |-> "Public",
     private |-> "Private",
     count |-> "Count", total |-> "Total", number |-> "Number",
     amount |-> "Amount", quantity |-> "Quantity", score |-> "Score",
     rating |-> "Rating",
     error |-> "Error", warning |-> "Warning", info |-> "Info",
     debug |-> "Debug", trace |-> "Trace", stack |-> "Stack"]

\* labelMap[lowerKey] || key.charAt(0).toUpperCase() + key.slice(1)
getSemanticLabel(key) ==
    LET lowerKey == toLowerCase(key)
    IN IF lowerKey \in DOMAIN labelMap THEN labelMap[lowerKey]
       ELSE IF key = "" THEN ""
       ELSE ToUpperChar(Char(key, 1)) \o SubSeq(key, 2, Len(key))

\* ' '.repeat(indentation * 2)
Indent(indentation) == Repeat(" ", indentation * 2)

\* typeof x === 'object' && x !== null
IsObject(x) == x.t \in {"ref", "arr", "obj"}

IsArray(h, x) == IF x.t = "ref" THEN h[x.v].kind = "arr" ELSE x.t = "arr"

\* The items of an array, or the property values of an object, in order.
ValsOf(h, x) == IF x.t = "ref" THEN h[x.v].vals ELSE x.v

\* Object.keys(x)
KeysOf(h, x) == IF x.t = "ref" THEN h[x.v].keys ELSE x.k

\* String(x) of a value that is neither a string nor an object
StringOf(x) ==
    CASE x.t = "null" -> "null"
      [] x.t = "undefined" -> "undefined"
      [] x.t = "bool" -> IF x.v THEN "true" ELSE "false"
      [] x.t = "num" -> CASE x.c = "finite" -> IntToString(x.v)
                          [] x.c = "nan" -> "NaN"
                          [] x.c = "inf" -> "Infinity"
                          [] x.c = "-inf" -> "-Infinity"
                          [] x.c = "-0" -> "0"

TruncatedNotice == "... [truncated]"

\* a string argument cut at maxLength
TruncateString(s, maxLength) ==
    IF Len(s) > maxLength THEN Substring0(s, maxLength) \o TruncatedNotice ELSE s

\* the return value for data === null || typeof data !== 'object'
PrimitiveText(data, maxLength) ==
    CASE data.t = "str" -> TruncateString(data.v, maxLength)
      [] data.t = "bool" -> IF data.v THEN "yes" ELSE "no"
      [] data.t = "null" -> "none"
      [] OTHER -> StringOf(data)

\* data.slice(0, maxArrayItems)
DisplayItems(items, maxArrayItems) ==
    IF maxArrayItems >= 0 THEN SubSeq(items, 1, Min(Len(items), maxArrayItems))
    ELSE SubSeq(items, 1, Max(Len(items) + maxArrayItems, 0))

isSimpleArray(displayItems) ==
    \A i \in 1..Len(displayItems) : ~IsObject(displayItems[i])

\* the text of one item of a simple array
SimpleItemText(item) ==
    CASE item.t = "str" -> item.v
      [] item.t = "bool" -> IF item.v THEN "yes" ELSE "no"
      [] OTHER -> StringOf(item)

\* The notice counting every item of the array.
MoreItemsNoticeOfAll(items, maxArrayItems) ==
    "... [" \o IntToString(Len(items)) \o " more items]"

MoreItemsNotice(items, maxArrayItems) ==
    "... [" \o IntToString(Len(items) - maxArrayItems) \o " more items]"

\* the LIST line of a simple array
ListText(items, maxArrayItems) ==
    LET displayItems == DisplayItems(items, maxArrayItems)
        hasMore == Len(items) > maxArrayItems
        text == Join([i \in 1..Len(displayItems) |-> SimpleItemText(displayItems[i])],
                     ", ")
    IN "LIST: " \o (IF hasMore THEN text \o MoreItemsNotice(items, maxArrayItems)
                    ELSE text)

\* the line of item `index` (from 1) of an array of containers
ItemLine(indent, index, itemStr) ==
    IF Includes(itemStr, "\n")
    THEN indent \o "Item " \o IntToString(index) \o ":\n" \o itemStr
    ELSE indent \o "Item " \o IntToString(index) \o ": " \o itemStr

\* the text of an array of containers, from the lines of its items
ItemsText(lines, items, indent, maxArrayItems) ==
    IF Len(items) > maxArrayItems
    THEN Join(lines, "\n") \o "\n" \o indent \o MoreItemsNotice(items, maxArrayItems)
    ELSE Join(lines, "\n")

\* the line of a property whose value is an empty array or object
EmptyPropertyLine(indent, label) == indent \o label \o ": empty"

\* the line(s) of a property whose value is a container, from its text
NestedPropertyLine(indent, label, nestedContent) ==
    IF ~Includes(nestedContent, "\n")
    THEN indent \o label \o ": " \o nestedContent
    ELSE indent \o label \o ":\n" \o nestedContent

\* the displayValue of a property whose value is not a container
DisplayValue(value) ==
    CASE value.t = "str" -> value.v
      [] value.t = "null" -> "none"
      [] value.t = "bool" -> IF value.v THEN "yes" ELSE "no"
      [] OTHER -> StringOf(value)

PrimitivePropertyLine(indent, label, value) ==
    indent \o label \o ": " \o DisplayValue(value)

\* (Array.isArray(value) && value.length === 0) ||
\* Object.keys(value).length === 0
IsEmptyContainer(h, value) ==
    IF IsArray(h, value) THEN Len(ValsOf(h, value)) = 0
    ELSE Len(KeysOf(h, value)) = 0

Digits == "0123456789"

IsDigits(s) == s # "" /\ \A i \in 1..Len(s) : LetterIndex(Char(s, i), Digits) > 0

\* The value of a string of digits.
RECURSIVE DigitsValue(_)
DigitsValue(s) ==
    IF s = "" THEN 0
    ELSE 10 * DigitsValue(SubSeq(s, 1, Len(s) - 1))
         + (LetterIndex(Char(s, Len(s)), Digits) - 1)

\* A JSON integer literal without sign: no leading zero.
IsJsonNatural(s) == IsDigits(s) /\ (Len(s) = 1 \/ Char(s, 1) # "0")

\* A JSON string literal without escapes.
IsJsonPlainString(s) ==
    /\ Len(s) >= 2 /\ Char(s, 1) = "\"" /\ Char(s, Len(s)) = "\""
    /\ \A i \in 2..(Len(s) - 1) : Char(s, i) \notin {"\"", "\\", "\n", "\r", "\t", "\f"}

ParseFailed == [t |-> "error", v |-> "SyntaxError"]

\* JSON.parse(text) on the JSON texts drawn: the literals, integers, strings
\* without escapes and the empty containers; SyntaxError on texts that are
\* not JSON.
ParseJson(text) ==
    CASE text = "null" -> Null
      [] text = "true" -> Bool(TRUE)
      [] text = "false" -> Bool(FALSE)
      [] text = "[]" -> TArr(<<>>)
      [] text = "{}" -> TObj(<<>>, <<>>)
      [] IsJsonNatural(text) -> Num(DigitsValue(text))
      [] Len(text) > 1 /\ Char(text, 1) = "-" /\ IsJsonNatural(SubSeq(text, 2, Len(text))) ->
            IF DigitsValue(SubSeq(text, 2, Len(text))) = 0 THEN NegZero
            ELSE Num(0 - DigitsValue(SubSeq(text, 2, Len(text))))
      [] IsJsonPlainString(text) -> Str(SubSeq(text, 2, Len(text) - 1))
      [] OTHER -> ParseFailed

MaxDepthMarker == "[Max depth reached]"
CircularMarker == "[Circular reference]"
TransformedPrefix == "[Transformed from JSON]\n"

\* The guards without the look-up in visited.
EntryVerdictDepthOnly(data, indentation, maxDepth, seen) ==
    IF indentation > maxDepth THEN "depth" ELSE "proceed"

\* No guard at all.
EntryVerdictUnguarded(data, indentation, maxDepth, seen) == "proceed"

\* The cycle guard alone: no depth check.
EntryVerdictCycleOnly(data, indentation, maxDepth, seen) ==
    IF IsObject(data) /\ data \in seen THEN "circular" ELSE "proceed"

\* The guards at the head of an invocation: the depth check comes before
\* the look-up in visited.
EntryVerdict(data, indentation, maxDepth, seen) ==
    IF indentation > maxDepth THEN "depth"
    ELSE IF IsObject(data) /\ data \in seen THEN "circular"
    ELSE "proceed"

\* One invocation. `fresh`: the caller passed no visited set.
Frame(data, indentation, parentKey, fresh) ==
    [data |-> data, indentation |-> indentation, parentKey |-> parentKey,
     fresh |-> fresh, st |-> "entry", idx |-> 1, lines |-> <<>>, ret |-> ""]

Top == stack[Len(stack)]

ReplaceTop(f) == [stack EXCEPT ![Len(stack)] = f]

Returning(f, text) == [f EXCEPT !.st = "ret", !.ret = text]

\* Invocations that can be active at once in the model.
MaxStack == 6

\* A call that goes on with the visited set the last call left.
P_CallSharingVisited ==
    /\ pc = "p_start"
    /\ stack' = <<Frame(root, pargs.indentation, "", TRUE)>>
    /\ pc' = "p_run"
    /\ UNCHANGED <<heap, root, pargs, options, calls, visited, normalized, full, result>>

\* the call: visited defaults to null
P_Call ==
    /\ pc = "p_start"
    /\ stack' = <<Frame(root, pargs.indentation, "", TRUE)>>
    /\ visited' = {}
    /\ pc' = "p_run"
    /\ UNCHANGED <<heap, root, pargs, options, calls, normalized, full, result>>

\* The head of an invocation up to its first recursive call or its return:
\* root string parsing, the two guards, visited.add, primitives, empty and
\* simple arrays, empty objects.
P_Enter ==
    /\ pc = "p_run" /\ Len(stack) > 0 /\ Top.st = "entry"
    /\ LET f == Top
           parsed == IF f.data.t = "str" THEN ParseJson(f.data.v) ELSE ParseFailed
           verdict == EntryVerdict(f.data, f.indentation, pargs.maxDepth, visited)
       IN IF f.fresh /\ f.data.t = "str"
          THEN IF parsed.t # "error"
               THEN /\ stack' = Append(ReplaceTop([f EXCEPT !.st = "json"]),
                                       Frame(parsed, f.indentation, f.parentKey, FALSE))
                    /\ visited' = {}
               ELSE /\ stack' = ReplaceTop(Returning(f,
                                    TruncateString(f.data.v, pargs.maxLength)))
                    /\ UNCHANGED visited
          ELSE IF verdict = "depth"
          THEN /\ stack' = ReplaceTop(Returning(f, MaxDepthMarker))
               /\ UNCHANGED visited
          ELSE IF verdict = "circular"
          THEN /\ stack' = ReplaceTop(Returning(f, CircularMarker))
               /\ UNCHANGED visited
          ELSE IF ~IsObject(f.data)
          THEN /\ stack' = ReplaceTop(Returning(f, PrimitiveText(f.data, pargs.maxLength)))
               /\ UNCHANGED visited
          ELSE /\ visited' = visited \cup {f.data}
               /\ stack' = ReplaceTop(
                    IF IsArray(heap, f.data)
                    THEN IF Len(ValsOf(heap, f.data)) = 0 THEN Returning(f, "empty")
                         ELSE IF isSimpleArray(DisplayItems(ValsOf(heap, f.data),
                                                            pargs.maxArrayItems))
                         THEN Returning(f, ListText(ValsOf(heap, f.data),
                                                    pargs.maxArrayItems))
                         ELSE [f EXCEPT !.st = "items"]
                    ELSE IF Len(KeysOf(heap, f.data)) = 0 THEN Returning(f, "empty")
                         ELSE [f EXCEPT !.st = "props"])
    /\ UNCHANGED <<heap, root, pargs, options, calls, pc, normalized, full, result>>

\* the recursive call on the next item of an array of containers
P_Item ==
    /\ pc = "p_run" /\ Len(stack) > 0 /\ Top.st = "items"
    /\ LET f == Top
           displayItems == DisplayItems(ValsOf(heap, f.data), pargs.maxArrayItems)
       IN /\ f.idx <= Len(displayItems)
          /\ Len(stack) < MaxStack
          /\ stack' = Append(stack, Frame(displayItems[f.idx], f.indentation + 1,
                                          f.parentKey, FALSE))
    /\ UNCHANGED <<heap, root, pargs, options, calls, pc, visited, normalized, full, result>>

\* the next key of an object: its line, or the recursive call on its value
P_Prop ==
    /\ pc = "p_run" /\ Len(stack) > 0 /\ Top.st = "props"
    /\ LET f == Top
           keys == KeysOf(heap, f.data)
           key == keys[f.idx]
           value == ValsOf(heap, f.data)[f.idx]
           indent == Indent(f.indentation)
           label == getSemanticLabel(key)
           advance(line) == ReplaceTop([f EXCEPT !.idx = f.idx + 1,
                                                 !.lines = Append(f.lines, line)])
       IN /\ f.idx <= Len(keys)
          /\ IF IsObject(value)
             THEN IF IsEmptyContainer(heap, value)
                  THEN stack' = advance(EmptyPropertyLine(indent, label))
                  ELSE /\ Len(stack) < MaxStack
                       /\ stack' = Append(stack, Frame(value, f.indentation + 1,
                                                       key, FALSE))
             ELSE stack' = advance(PrimitivePropertyLine(indent, label, value))
    /\ UNCHANGED <<heap, root, pargs, options, calls, pc, visited, normalized, full, result>>

\* the join of the lines once every item or key is done
P_Finish ==
    /\ pc = "p_run" /\ Len(stack) > 0 /\ Top.st \in {"items", "props"}
    /\ LET f == Top
           items == ValsOf(heap, f.data)
       IN IF f.st = "items"
          THEN /\ f.idx > Len(DisplayItems(items, pargs.maxArrayItems))
               /\ stack' = ReplaceTop(Returning(f,
                              ItemsText(f.lines, items, Indent(f.indentation),
                                        pargs.maxArrayItems)))
          ELSE /\ f.idx > Len(KeysOf(heap, f.data))
               /\ stack' = ReplaceTop(Returning(f, Join(f.lines, "\n")))
    /\ UNCHANGED <<heap, root, pargs, options, calls, pc, visited, normalized, full, result>>

\* The return of an invocation: to the caller of jsonToLLMString, or into
\* the line its parent builds from it. visited keeps what it has.
P_Return ==
    /\ pc = "p_run" /\ Len(stack) > 0 /\ Top.st = "ret"
    /\ IF Len(stack) = 1
       THEN /\ result' = Returned(Top.ret)
            /\ stack' = <<>>
            /\ pc' = "done"
       ELSE LET child == Top
                f == stack[Len(stack) - 1]
                rest == SubSeq(stack, 1, Len(stack) - 2)
                indent == Indent(f.indentation)
                line == IF f.st = "items" THEN ItemLine(indent, f.idx, child.ret)
                        ELSE NestedPropertyLine(indent,
                                 getSemanticLabel(KeysOf(heap, f.data)[f.idx]),
                                 child.ret)
            IN /\ stack' = Append(rest,
                              IF f.st = "json"
                              THEN Returning(f, TransformedPrefix \o child.ret)
                              ELSE [f EXCEPT !.idx = f.idx + 1,
                                             !.lines = Append(f.lines, line)])
               /\ UNCHANGED <<pc, result>>
    /\ UNCHANGED <<heap, root, pargs, options, calls, visited, normalized, full>>

NextP == P_Call \/ P_Enter \/ P_Item \/ P_Prop \/ P_Finish \/ P_Return

-----------------------------------------------------------------------------
(* Inputs.                                                                 *)

\* The object graphs drawn have up to three nodes, each of up to two slots
\* (properties or items).
Nodes == {1, 2, 3}
Slots == {1, 2}
MaxNodes == Cardinality(Nodes)
MaxSlots == Cardinality(Slots)

\* Sequences over S of length lo..hi
SeqsOf(S, lo, hi) == UNION {[1..n -> S] : n \in lo..hi}

\* The nodes reachable from node n (n included).
RECURSIVE ReachFrom(_, _, _)
ReachFrom(h, frontier, seen) ==
    IF frontier \subseteq seen THEN seen
    ELSE LET new == frontier \ seen
             next == {h[n].vals[i].v : <<n, i>> \in
                         {<<m, j>> \in new \X (1..MaxSlots) :
                             j <= Len(h[m].vals) /\ h[m].vals[j].t = "ref"}}
         IN ReachFrom(h, next, seen \cup new)

Reachable(h, x) == IF x.t = "ref" THEN ReachFrom(h, {x.v}, {}) ELSE {}

\* The nodes a node refers to directly.
Children(h, n) ==
    {h[n].vals[i].v : i \in {j \in 1..Len(h[n].vals) : h[n].vals[j].t = "ref"}}

\* Some node reachable from x reaches itself.
HasCycle(h, x) ==
    \E n \in Reachable(h, x) : n \in ReachFrom(h, Children(h, n), {})

EmptyNode == ObjNode(<<>>, <<>>)

NoOptions == [x \in {} |-> 0]
DefaultPargs ==
    [indentation |-> 0, maxDepth |-> 10, maxLength |-> 1000, maxArrayItems |-> 50]

Input(h, x, o, p) == [heap |-> h, root |-> x, options |-> o, pargs |-> p]


\* --- Chains: node n sits at depth n - 1 and may hold the node below it.
\* Keys and string scalars carry the depth they are located at, so that a
\* text names the place it came from.
KeyAt(d, j) == Char("ab", j) \o NatToString(d)
ScalarAt(d) == Str("s" \o NatToString(d))

MakeNode(kind, ks, vs) == IF kind = "obj" THEN ObjNode(ks, vs) ELSE ArrNode(vs)

ChainShapes(n) ==
    {MakeNode(kind, [j \in 1..Len(vs) |-> KeyAt(n - 1, j)], vs) :
        kind \in {"obj", "arr"},
        vs \in SeqsOf({ScalarAt(n)} \cup (IF n < MaxNodes THEN {Ref(n + 1)} ELSE {}),
                      0, MaxSlots)}

HasRef(node) == \E i \in 1..Len(node.vals) : node.vals[i].t = "ref"

\* The chains over nodes n..MaxNodes whose node n is reached.
RECURSIVE ChainsFrom(_)
ChainsFrom(n) ==
    IF n = MaxNodes THEN {[m \in {n} |-> s] : s \in ChainShapes(n)}
    ELSE {[m \in n..MaxNodes |-> IF m = n THEN s ELSE rest[m]] :
             s \in {x \in ChainShapes(n) : HasRef(x)}, rest \in ChainsFrom(n + 1)}
         \cup {[m \in n..MaxNodes |-> IF m = n THEN s ELSE EmptyNode] :
                 s \in {x \in ChainShapes(n) : ~HasRef(x)}}

\* The maxDepth arguments drawn: 0..MaxDepthArg
MaxDepthArg == 2

DepthInputs ==
    {Input(h, Ref(1), [maxDepth |-> k, arrayFormat |-> f], DefaultPargs) :
        h \in ChainsFrom(1), k \in 0..MaxDepthArg,
        f \in {"auto", "brackets", "indented"}}

InitDepth == \E inp \in DepthInputs : CallState(inp, "o_start")

\* Options-based calls on chains, under each maxDepth and arrayFormat.
SpecDepth == InitDepth /\ [][NextO]_vars


-----------------------------------------------------------------------------
(* Reading an output text.                                                 *)

\* Index of the first occurrence of the character ch in s, 0 if none.
FirstIndexOf(s, ch) ==
    IF Includes(s, ch)
    THEN CHOOSE i \in 1..Len(s) :
             Char(s, i) = ch /\ \A j \in 1..(i - 1) : Char(s, j) # ch
    ELSE 0

\* s.split(sep), for a one-character separator
RECURSIVE Split(_, _)
Split(s, sep) ==
    LET i == FirstIndexOf(s, sep)
    IN IF i = 0 THEN <<s>>
       ELSE <<SubSeq(s, 1, i - 1)>> \o Split(SubSeq(s, i + 1, Len(s)), sep)

\* The text after the header line of a full output.
BodyOf(text) == SubSeq(text, Len(PREFIX) + 2, Len(text))

\* The number of leading spaces of a line.
RECURSIVE LeadingSpaces(_)
LeadingSpaces(line) ==
    IF Len(line) > 0 /\ Char(line, 1) = " " THEN 1 + LeadingSpaces(Tail(line)) ELSE 0

\* The first word of a line, after its indentation.
FirstWord(line) ==
    LET rest == SubSeq(line, LeadingSpaces(line) + 1, Len(line))
        i == FirstIndexOf(rest, " ")
    IN IF i = 0 THEN rest ELSE SubSeq(rest, 1, i - 1)

\* The lines of `lines` indented by exactly n spaces, in order.
LinesAtIndent(lines, n) ==
    FilterIdx(lines, {i \in 1..Len(lines) : LeadingSpaces(lines[i]) = n}, 1)

\* Line i + 1 directly follows line i.
Follows(lines, first, second) ==
    \E i \in 1..(Len(lines) - 1) : lines[i] = first /\ lines[i + 1] = second

InSeq(x, seq) == \E i \in 1..Len(seq) : seq[i] = x

Done == pc = "done"
ReturnedText == result.kind = "return"

-----------------------------------------------------------------------------
(* Claims about the depth limit of the options-based serializer.           *)

\* The call ran on a chain all of whose reached nodes are objects.
ObjectChain == \A n \in Reachable(heap, root) : heap[n].kind = "obj"

\* C6, for one object (node n, at depth n - 1) of an object chain under
\* maxDepth k: what the output holds of its properties, which sit at depth n.
C6_NodeRendered(n, k, lines, body) ==
    \A j \in 1..Len(heap[n].vals) :
        LET key == heap[n].keys[j]
            val == heap[n].vals[j]
            indent == Repeat("  ", n - 1)
        IN IF n - 1 > k
           \* the object is below the limit: nothing of it is in the output
           THEN ~Includes(body, key)
                /\ (val.t = "str" => ~Includes(body, val.v))
           ELSE IF n = k + 1
           \* its values are at depth k + 1: each is the marker
           THEN IF val.t = "ref"
                THEN Follows(lines, indent \o key, "[Max depth reached]")
                ELSE InSeq(indent \o key \o " [Max depth reached]", lines)
           \* its values are within the limit: rendered normally
           ELSE IF val.t = "ref"
                THEN IF Len(heap[val.v].vals) = 0
                     THEN InSeq(indent \o key \o " EmptyObject", lines)
                     ELSE \E i \in 1..(Len(lines) - 1) :
                              /\ lines[i] = indent \o key
                              /\ LeadingSpaces(lines[i + 1]) = 2 * n
                              /\ FirstWord(lines[i + 1]) = heap[val.v].keys[1]
                ELSE InSeq(indent \o key \o " \"" \o val.v \o "\"", lines)

\* C6: in an options-based call on a chain of nested objects with
\* maxDepth = k, every value at depth <= k is rendered normally, every value
\* at depth k + 1 (object or scalar) is rendered as [Max depth reached], and
\* no key or value located below depth k + 1 appears in the output.
C6_DepthLimitOnObjectChain ==
    (Done /\ ObjectChain) =>
        /\ ReturnedText
        /\ LET body == BodyOf(result.value)
           IN \A n \in Reachable(heap, root) :
                 C6_NodeRendered(n, BuildCfg(options).maxDepth,
                                 Split(body, "\n"), body)

\* A chain of three objects serialized with maxDepth = 1: values at depth
\* 1, 2 (the limit exceeded) and 3 (never reached) all exist.
C6_Witness ==
    /\ Done /\ ObjectChain /\ ReturnedText
    /\ Reachable(heap, root) = Nodes
    /\ BuildCfg(options).maxDepth = 1
    /\ Len(heap[MaxNodes].vals) > 0
    /\ Includes(result.value, "[Max depth reached]")

\* C7 (as claimed): for every arrayFormat, every node whose nesting level
\* exceeds maxDepth is rendered as the depth-limit marker and not expanded;
\* the items of an array are one level deeper than the array.  A string
\* scalar held by node n has nesting level n, and its text names that level.
C7_DepthLimitEveryArrayFormat ==
    (Done /\ ReturnedText) =>
        \A n \in Reachable(heap, root) :
            n > BuildCfg(options).maxDepth =>
                ~Includes(BodyOf(result.value), ScalarAt(n).v)


-----------------------------------------------------------------------------
(* Claims about key filtering and ordering.                                *)

\* The keys drawn, in ascending order.
KeyOrder == <<"a", "ab", "b">>
KeyUniverse == {KeyOrder[i] : i \in 1..Len(KeyOrder)}

\* Sequences of distinct keys.
KeySeqs(lo, hi) ==
    {ks \in SeqsOf(KeyUniverse, lo, hi) :
        \A i, j \in 1..Len(ks) : i # j => ks[i] # ks[j]}

\* A root object of up to three properties (null, a number, or in one
\* place a nested object), over a nested object of none or two (null or a
\* number).
KeysRoots ==
    {ObjNode(ks, vs) : ks \in KeySeqs(0, 3), vs \in SeqsOf({Null, Num(1), Ref(2)}, 0, 3)}

KeysNested ==
    {EmptyNode} \cup
    {ObjNode(ks, vs) : ks \in KeySeqs(2, 2),
                       vs \in {<<Num(2), Num(2)>>, <<Null, Num(2)>>, <<Num(2), Null>>}}

KeysHeaps ==
    {<<n1, IF HasRef(n1) THEN n2 ELSE EmptyNode>> :
        n1 \in {x \in KeysRoots :
                   /\ Len(x.keys) = Len(x.vals)
                   /\ Cardinality({i \in 1..Len(x.vals) : x.vals[i].t = "ref"}) <= 1},
        n2 \in KeysNested}

KeysInputs ==
    {Input(h, Ref(1), [sortKeys |-> sk, ignoreFalsy |-> f], DefaultPargs) :
        h \in KeysHeaps, sk \in {"none", "asc", "desc"}, f \in BOOLEAN}

InitKeys == \E inp \in KeysInputs : CallState(inp, "o_start")

\* Options-based calls on nested objects, under each sortKeys and ignoreFalsy.
SpecKeys == InitKeys /\ [][NextO]_vars

\* The keys of the key lines at depth d of the output, in order: the first
\* words, at indentation 2d, that are keys.
RenderedKeys(text, d) ==
    LET lines == LinesAtIndent(Split(BodyOf(text), "\n"), 2 * d)
        words == [i \in 1..Len(lines) |-> FirstWord(lines[i])]
    IN FilterIdx(words, {i \in 1..Len(words) : words[i] \in KeyUniverse}, 1)

\* The input keys of node n that ignoreFalsy does not drop, in input order.
InputKeysKept(n) ==
    FilterIdx(heap[n].keys,
              {i \in 1..Len(heap[n].keys) :
                  ~(BuildCfg(options).ignoreFalsy /\ heap[n].vals[i].t = "null")}, 1)

SeqToSet(seq) == {seq[i] : i \in 1..Len(seq)}

\* The position of a key in KeyOrder.
KeyPos(key) == CHOOSE i \in 1..Len(KeyOrder) : KeyOrder[i] = key

\* Is the sequence of keys in ascending (descending) order?
Ascending(ks) == \A i, j \in 1..Len(ks) : i < j => KeyPos(ks[i]) < KeyPos(ks[j])
Descending(ks) == \A i, j \in 1..Len(ks) : i < j => KeyPos(ks[i]) > KeyPos(ks[j])

\* The rendered keys of the nested object (node 2), once per property of the
\* root that holds it: the key lines at depth 1, cut into runs of the length
\* of one rendering.
NestedRuns(text) ==
    LET ks == RenderedKeys(text, 1)
        n == Len(InputKeysKept(2))
    IN IF n = 0 THEN {} ELSE {SubSeq(ks, i * n + 1, (i + 1) * n) : i \in 0..((Len(ks) \div n) - 1)}

\* The number of rendered properties of the root that hold the nested object.
NestedHolders == Cardinality({i \in 1..Len(heap[1].vals) : heap[1].vals[i].t = "ref"})

C9_Ordered(ks, n) ==
    CASE BuildCfg(options).sortKeys = "asc" -> Ascending(ks)
      [] BuildCfg(options).sortKeys = "desc" -> Descending(ks)
      [] OTHER -> ks = InputKeysKept(n)

\* C9: the key lines of every object are in ascending key order under
\* sortKeys 'asc', in the reverse of that order under 'desc', and in the
\* object's own key order under 'none', at every nesting level.
C9_KeyLinesOrderedBySortKeys ==
    (Done /\ ReturnedText) =>
        /\ C9_Ordered(RenderedKeys(result.value, 0), 1)
        /\ \A run \in NestedRuns(result.value) : C9_Ordered(run, 2)

\* Three root keys and two nested keys, neither in ascending nor in
\* descending input order at the root, all rendered, under 'desc'.
C9_Witness ==
    /\ Done /\ ReturnedText
    /\ BuildCfg(options).sortKeys = "desc"
    /\ Len(heap[1].keys) = 3
    /\ ~Ascending(heap[1].keys) /\ ~Descending(heap[1].keys)
    /\ Len(RenderedKeys(result.value, 0)) = 3
    /\ Len(heap[2].keys) = 2 /\ Ascending(heap[2].keys)
    /\ RenderedKeys(result.value, 1) = <<heap[2].keys[2], heap[2].keys[1]>>


-----------------------------------------------------------------------------
(* Object graphs with shared and cyclic references.                        *)

\* References per graph.
MaxRefs == 3

GraphKeys == <<"a", "b">>

GraphShapes ==
    {MakeNode(kind, SubSeq(GraphKeys, 1, Len(vs)), vs) :
        kind \in {"obj", "arr"},
        vs \in SeqsOf({Str("s")} \cup {Ref(n) : n \in Nodes}, 0, MaxSlots)}

\* The nodes a node refers to, in slot order.
ChildSeq(node) ==
    LET refs == FilterIdx(node.vals,
                          {i \in 1..Len(node.vals) : node.vals[i].t = "ref"}, 1)
    IN [i \in 1..Len(refs) |-> refs[i].v]

\* The nodes in the order a depth-first walk from `todo` first meets them.
RECURSIVE Discover(_, _, _)
Discover(h, todo, order) ==
    IF Len(todo) = 0 THEN order
    ELSE IF InSeq(Head(todo), order) THEN Discover(h, Tail(todo), order)
    ELSE Discover(h, ChildSeq(h[Head(todo)]) \o Tail(todo), Append(order, Head(todo)))

RefCount(h) ==
    Cardinality({<<n, i>> \in Nodes \X (1..MaxSlots) :
                    i <= Len(h[n].vals) /\ h[n].vals[i].t = "ref"})

\* One graph per shape: nodes are numbered in the order a walk from node 1
\* meets them, and nodes it does not meet are empty.
GraphHeaps ==
    {h \in [Nodes -> GraphShapes] :
        /\ RefCount(h) <= MaxRefs
        /\ LET order == Discover(h, <<1>>, <<>>)
           IN /\ \A i \in 1..Len(order) : order[i] = i
              /\ \A n \in Nodes : n > Len(order) => h[n] = EmptyNode}

CycleInputs == {Input(h, Ref(1), NoOptions, DefaultPargs) : h \in GraphHeaps}

InitCycle == \E inp \in CycleInputs : CallState(inp, "o_start")

\* Options-based calls on object graphs, cyclic ones included.
SpecCycle == InitCycle /\ [][NextO]_vars

\* C5: whenever the input of an options-based call contains a cycle (the
\* root referencing itself, or a nested child referencing an ancestor), the
\* call fails with an error whose message contains 'Circular structure
\* detected', and no output text, partial or otherwise, is produced.
C5_CycleThrowsCircularError ==
    (Done /\ HasCycle(heap, root)) =>
        /\ result.kind = "throw"
        /\ Includes(result.value, "Circular structure detected")
        /\ full = ""

\* A call that threw on a cycle closed two levels below the root.
C5_Witness ==
    /\ Done /\ result.kind = "throw"
    /\ 1 \notin Children(heap, 1)
    /\ \E n \in Children(heap, 1) : \E m \in Children(heap, n) :
           m # n /\ 1 \in Children(heap, m)


-----------------------------------------------------------------------------
(* Claims about the maxChars budget.                                       *)

\* The finite maxChars arguments drawn: 0..MaxCharsArg
MaxCharsArg == 160

\* Roots without nested containers: bodies of 6 to 15 characters, full texts
\* of 145 to 154.
BudgetHeaps == {h \in ChainsFrom(1) : ~HasRef(h[1])}

BudgetInputs ==
    {Input(h, Ref(1), o, DefaultPargs) :
        h \in BudgetHeaps,
        o \in {NoOptions} \cup {[maxChars |-> Num(m)] : m \in 0..MaxCharsArg}}

InitBudget == \E inp \in BudgetInputs : CallState(inp, "o_start")

\* Options-based calls under each maxChars.
SpecBudget == InitBudget /\ [][NextO]_vars

\* C2 (as claimed): for every input and every finite maxChars >= 0, the
\* returned string, header line included, is at most maxChars long.
C2_OutputWithinMaxChars ==
    (Done /\ ReturnedText /\ IsFinite(BuildCfg(options).maxChars)
          /\ BuildCfg(options).maxChars.v >= 0) =>
        Len(result.value) <= BuildCfg(options).maxChars.v

-----------------------------------------------------------------------------
(* Claims about ignoreFalsy.                                               *)

FalsyScalars == {Null, Bool(FALSE), Num(0), Str(""), NaN, NegInfinity}

\* A root object of up to two properties (a falsy scalar, or in one place a
\* nested container), over an object or array of up to two falsy scalars.
FalsyHeaps ==
    {<<n1, IF HasRef(n1) THEN n2 ELSE EmptyNode>> :
        n1 \in {ObjNode(SubSeq(GraphKeys, 1, Len(vs)), vs) :
                   vs \in {x \in SeqsOf(FalsyScalars \cup {Ref(2)}, 0, 2) :
                              x # <<Ref(2), Ref(2)>>}},
        n2 \in {MakeNode(kind, SubSeq(GraphKeys, 1, Len(vs)), vs) :
                   kind \in {"obj", "arr"}, vs \in SeqsOf(FalsyScalars, 0, 2)}}

FalsyInputs ==
    {Input(h, Ref(1), [ignoreFalsy |-> f, arrayFormat |-> af], DefaultPargs) :
        h \in FalsyHeaps, f \in BOOLEAN, af \in {"auto", "brackets", "indented"}}

InitFalsy == \E inp \in FalsyInputs : CallState(inp, "o_start")

\* Options-based calls on falsy values, under each ignoreFalsy.
SpecFalsy == InitFalsy /\ [][NextO]_vars

\* JSON has no text for these numbers: normalisation reads them back as null.
NullAfterNormalisation(v) == v.t = "null" \/ (v.t = "num" /\ v.c \in {"nan", "inf", "-inf"})

\* The expected text of a falsy scalar that is rendered.
FalsyText(v) ==
    CASE NullAfterNormalisation(v) -> "null"
      [] v.t = "bool" -> "false"
      [] v.t = "num" -> "0"
      [] v.t = "str" -> "\"\""

\* Is a property or an item with this value expected in the output?
PropertyExpected(v) == ~(BuildCfg(options).ignoreFalsy /\ NullAfterNormalisation(v))
ItemExpected(v) == PropertyExpected(v)

\* The expected lines of the nested container under the key `key`.
ExpectedNested(key, node) ==
    IF node.kind = "obj"
    THEN LET kept == {i \in 1..Len(node.vals) : PropertyExpected(node.vals[i])}
         IN IF kept = {} THEN <<key \o " EmptyObject">>
            ELSE <<key>> \o
                 FilterIdx([i \in 1..Len(node.vals) |->
                               "  " \o node.keys[i] \o " " \o FalsyText(node.vals[i])],
                           kept, 1)
    ELSE LET kept == {i \in 1..Len(node.vals) : ItemExpected(node.vals[i])}
             texts == FilterIdx([i \in 1..Len(node.vals) |-> FalsyText(node.vals[i])],
                                kept, 1)
         IN IF kept = {} THEN <<key \o " EmptyArray">>
            ELSE IF BuildCfg(options).arrayFormat = "indented"
            THEN <<key, "  [">> \o [i \in 1..Len(texts) |-> "    " \o texts[i]]
                     \o <<"  ]">>
            ELSE <<key \o " [" \o Join(texts, ", ") \o "]">>

\* The expected lines of the root object.
ExpectedFalsyLines ==
    LET node == heap[1]
        kept == {i \in 1..Len(node.vals) : PropertyExpected(node.vals[i])}
    IN IF kept = {} THEN <<"EmptyObject">>
       ELSE Flatten(FilterIdx(
                [i \in 1..Len(node.vals) |->
                    IF node.vals[i].t = "ref"
                    THEN ExpectedNested(node.keys[i], heap[node.vals[i].v])
                    ELSE <<node.keys[i] \o " " \o FalsyText(node.vals[i])>>],
                kept, 1))

\* C10 (amended): with ignoreFalsy = true exactly the properties and items
\* whose value is null after JSON normalisation (null, NaN and the
\* infinities) are omitted, at every nesting level, while false, 0 and the
\* empty string are kept; with ignoreFalsy = false none is omitted and each
\* of those values is rendered as null.
C10_NullAfterNormalisationOmitted ==
    Done => /\ ReturnedText
            /\ Split(BodyOf(result.value), "\n") = ExpectedFalsyLines

\* C10 (as claimed): with ignoreFalsy = true exactly the properties whose
\* value is null are omitted; with ignoreFalsy = false none is.
C10_ExactlyNullOmitted ==
    (Done /\ ReturnedText) =>
        RenderedKeys(result.value, 0) =
            FilterIdx(heap[1].keys,
                      {i \in 1..Len(heap[1].keys) :
                          ~(BuildCfg(options).ignoreFalsy /\ heap[1].vals[i].t = "null")}, 1)

\* ignoreFalsy = true on a root that holds null and false and an array of
\* null and 0: the nulls are gone, false and 0 are in the output.
C10_Witness ==
    /\ Done /\ ReturnedText
    /\ BuildCfg(options).ignoreFalsy
    /\ heap[1].vals = <<Ref(2), Bool(FALSE)>>
    /\ heap[2].kind = "arr" /\ heap[2].vals = <<Null, Num(0)>>
    /\ BuildCfg(options).arrayFormat = "auto"
    /\ BodyOf(result.value) = "a [0]\nb false"


-----------------------------------------------------------------------------
(* Claims about the positional serializer on object graphs.                *)

\* Root strings: two that are not JSON, three JSON texts. Graphs are
\* serialized with maxDepth 0..MaxDepthArg and with the default maxDepth.
RootStrings == {"s", "{a", "12", "true", "[]"}

PositionalInputs ==
    {Input(h, x, NoOptions, [DefaultPargs EXCEPT !.maxDepth = d]) :
        h \in GraphHeaps, x \in {Ref(1)},
        d \in (0..MaxDepthArg) \cup {DefaultPargs.maxDepth}}
    \cup {Input([n \in Nodes |-> EmptyNode], Str(t), NoOptions, DefaultPargs) :
             t \in RootStrings}

InitP == \E inp \in PositionalInputs : CallState(inp, "p_start")

\* Positional calls on object graphs with cycles and aliasing.
SpecP == InitP /\ [][NextP]_vars

\* A started call keeps running: it is one synchronous JavaScript call.
FairSpecP == SpecP /\ WF_vars(NextP)

\* The number of places where pat occurs in s.
CountOf(s, pat) ==
    Cardinality({i \in 1..(Len(s) - Len(pat) + 1) :
                    SubSeq(s, i, i + Len(pat) - 1) = pat})

\* Both properties of the root object hold the same non-empty container.
AliasedSiblings(h) ==
    /\ h[1].kind = "obj" /\ Len(h[1].vals) = 2
    /\ h[1].vals[1].t = "ref" /\ h[1].vals[2] = h[1].vals[1]
    /\ h[1].vals[1].v # 1
    /\ Len(h[h[1].vals[1].v].vals) > 0

\* C1: for every acyclic input in which one non-empty object or array is
\* reachable through two different sibling keys, both occurrences are
\* rendered in full and the output contains no [Circular reference] marker.
C1_AliasingRendersNoCircularMarker ==
    (Done /\ root = Ref(1) /\ ~HasCycle(heap, root) /\ AliasedSiblings(heap)) =>
        /\ result.kind = "return"
        /\ ~Includes(result.value, CircularMarker)

\* The slots of reachable nodes that hold a reference.
RefSlots(h) ==
    {<<n, i>> \in Nodes \X Slots : i <= Len(h[n].vals) /\ h[n].vals[i].t = "ref"}

\* The root object holds itself in exactly one property, and apart from
\* that property the graph is a tree below the root: no node is held twice
\* and none holds the root.
SelfReferenceOnly(h) ==
    /\ h[1].kind = "obj"
    /\ Cardinality({i \in 1..Len(h[1].vals) : h[1].vals[i] = Ref(1)}) = 1
    /\ LET others == {s \in RefSlots(h) : ~(s[1] = 1 /\ h[1].vals[s[2]] = Ref(1))}
       IN /\ \A s \in others : h[s[1]].vals[s[2]] # Ref(1)
          /\ \A s, t \in others : h[s[1]].vals[s[2]] = h[t[1]].vals[t[2]] => s = t

\* The call returned a text with exactly one circular marker, which is the
\* value of the self-referencing property, and a line for every property of
\* the root.
SelfReferenceRendered ==
    LET lines == Split(result.value, "\n")
    IN /\ result.kind = "return"
       /\ CountOf(result.value, CircularMarker) = 1
       /\ \A i \in 1..Len(heap[1].keys) :
             LET label == getSemanticLabel(heap[1].keys[i])
             IN IF heap[1].vals[i] = Ref(1)
                THEN InSeq(label \o ": " \o CircularMarker, lines)
                ELSE \E j \in 1..Len(lines) : StartsWith(lines[j], label \o ":")

C4_TraversalReturns == <>(pc = "done" /\ result.kind = "return")

\* A returned call on a cycle of length three: the root object holds an
\* array that holds an object that holds the root.
C4_Witness ==
    /\ Done /\ result.kind = "return" /\ root = Ref(1)
    /\ heap[1].kind = "obj" /\ Ref(2) \in {heap[1].vals[i] : i \in 1..Len(heap[1].vals)}
    /\ heap[2].kind = "arr" /\ Ref(3) \in {heap[2].vals[i] : i \in 1..Len(heap[2].vals)}
    /\ heap[3].kind = "obj" /\ Ref(1) \in {heap[3].vals[i] : i \in 1..Len(heap[3].vals)}
    /\ Includes(result.value, CircularMarker)
    /\ heap[3].kind = "obj" /\ Ref(1) \in {heap[3].vals[i] : i \in 1..Len(heap[3].vals)}

-----------------------------------------------------------------------------
(* Claims about the numbers JSON cannot hold.                              *)

SpecialNumbers == {NaN, PosInfinity, NegInfinity, NegZero}

\* The places a number is put at: the root itself, a property, an item, the
\* property of a nested object, the item of a nested array.
NumberPlacements(x) ==
    LET e == EmptyNode
    IN {Input(<<e, e, e>>, x, NoOptions, DefaultPargs),
        Input(<<ObjNode(<<"a", "b">>, <<x, Num(7)>>), e, e>>, Ref(1), NoOptions, DefaultPargs),
        Input(<<ArrNode(<<Num(7), x>>), e, e>>, Ref(1), NoOptions, DefaultPargs),
        Input(<<ArrNode(<<x>>), e, e>>, Ref(1), NoOptions, DefaultPargs),
        Input(<<ObjNode(<<"a">>, <<Ref(2)>>), ObjNode(<<"c">>, <<x>>), e>>, Ref(1),
              NoOptions, DefaultPargs),
        Input(<<ObjNode(<<"a">>, <<Ref(2)>>), ArrNode(<<x, Ref(3)>>),
                ObjNode(<<"c">>, <<x>>)>>, Ref(1), NoOptions, DefaultPargs)}

NumberInputs ==
    {[inp EXCEPT !.options = o] :
        inp \in UNION {NumberPlacements(x) : x \in SpecialNumbers \cup {Num(7), Num(0)}},
        o \in {NoOptions} \cup
              {[ignoreFalsy |-> f, arrayFormat |-> af] :
                  f \in BOOLEAN, af \in {"auto", "brackets", "indented"}}}

InitNumbers == \E inp \in NumberInputs : CallState(inp, "o_start")

\* Options-based calls on inputs holding NaN, the infinities or -0.
SpecNumbers == InitNumbers /\ [][NextO]_vars

\* The values of the input: the root and every slot of a reachable node.
InputValues ==
    {root} \cup {heap[n].vals[i] : <<n, i>> \in
                    {<<m, j>> \in Reachable(heap, root) \X Slots : j <= Len(heap[m].vals)}}

\* What JSON.stringify writes for a number JSON cannot hold.
JsonReplacement(x) ==
    IF x \in {NaN, PosInfinity, NegInfinity} THEN Null
    ELSE IF x = NegZero THEN Num(0) ELSE x

\* The text formatNumber is specified to give.
SpecifiedNumberText(x) ==
    CASE x = NaN -> "NaN" [] x = PosInfinity -> "Infinity"
      [] x = NegInfinity -> "-Infinity" [] x = NegZero -> "-0"

\* The input with each such number replaced by what JSON.stringify writes.
ReplacedHeap ==
    [n \in DOMAIN heap |->
        [heap[n] EXCEPT !.vals = [i \in 1..Len(heap[n].vals) |->
                                     JsonReplacement(heap[n].vals[i])]]]

\* C11 (as stated): a number that is NaN, +Infinity, -Infinity or negative
\* zero, given as the root or anywhere inside the input tree, is rendered as
\* NaN, Infinity, -Infinity or -0 respectively.
C11_SpecialNumbersRenderedLiterally ==
    Done =>
        /\ ReturnedText
        /\ \A x \in InputValues \cap SpecialNumbers :
               Includes(BodyOf(result.value), SpecifiedNumberText(x))

\* C11 (amended): the input is rendered as the same input with NaN and the
\* infinities replaced by null and negative zero by 0, which is what the
\* JSON normalisation at call start leaves of them: the text holds none of
\* NaN, Infinity, -0, and a root NaN or infinity is rendered as null, a root
\* -0 as 0.
C11_SpecialNumbersRenderedAsJsonDoes ==
    Done =>
        /\ ReturnedText
        /\ result.value =
              ApplyBudget(FullText(formatValue(
                  NormalizeData(ReplacedHeap, JsonReplacement(root)), 0,
                  BuildCfg(options))), BuildCfg(options))
        /\ \A x \in InputValues \cap SpecialNumbers :
               ~Includes(BodyOf(result.value), SpecifiedNumberText(x))
        /\ root \in SpecialNumbers =>
               BodyOf(result.value) = (IF root = NegZero THEN "0" ELSE "null")

\* A returned call with ignoreFalsy off on an object whose nested array and
\* nested object hold -Infinity: both are rendered as null.
C11_Witness ==
    /\ Done /\ ReturnedText
    /\ "ignoreFalsy" \in DOMAIN options /\ ~options.ignoreFalsy
    /\ options.arrayFormat = "indented"
    /\ heap[2] = ArrNode(<<NegInfinity, Ref(3)>>)
    /\ Includes(BodyOf(result.value), "c null")

-----------------------------------------------------------------------------
(* Claims about escapeString.                                              *)

\* A string given by its code units.
Chars(codes) == [t |-> "chars", v |-> codes]

\* Every code unit up to 0x7F, and four above: 0x80, 0xFF, U+2028, 0xFFFF.
AllCodes == (0..127) \cup {128, 255, 8232, 65535}

\* backslash, double quote, x, 0, 1, a, n, NUL, U+0001, line feed
EscapeAlphabet == {92, 34, 120, 48, 49, 97, 110, 0, 1, 10}

\* The longest word over EscapeAlphabet that is escaped.
MaxWordLen == 4

\* Every single code unit, every code unit followed by one of the alphabet,
\* and every word over the alphabet up to MaxWordLen.
EscapeInputs ==
    {<<c>> : c \in AllCodes}
    \cup {<<c, d>> : c \in AllCodes, d \in EscapeAlphabet}
    \cup SeqsOf(EscapeAlphabet, 0, MaxWordLen)

InitEscape ==
    \E codes \in EscapeInputs :
        CallState(Input(<<EmptyNode, EmptyNode, EmptyNode>>, Chars(codes),
                        NoOptions, DefaultPargs), "e_start")

\* escapeString(value)
E_Escape ==
    /\ pc = "e_start"
    /\ result' = Returned(escapeCodes(root.v))
    /\ pc' = "done"
    /\ UNCHANGED <<heap, root, pargs, options, calls, stack, visited, normalized, full>>

NextE == E_Escape

\* escapeString applied to strings of code units.
SpecEscape == InitEscape /\ [][NextE]_vars

ControlCodes == (0..31) \cup {127}

\* The letter of the two-character escape of a code unit, 0 if it has none.
EscapeLetter(code) ==
    CASE code = 92 -> 92 [] code = 34 -> 34 [] code = 10 -> 110
      [] code = 13 -> 114 [] code = 9 -> 116 [] code = 8 -> 98
      [] code = 12 -> 102 [] code = 11 -> 118 [] code = 0 -> 48
      [] OTHER -> 0

\* The code unit of a lowercase hex digit.
HexDigitCode(d) == IF d < 10 THEN 48 + d ELSE 87 + d

\* The escape the mapping of C12 gives to one code unit.
SpecifiedEscape(code) ==
    IF EscapeLetter(code) # 0 \/ code = 0 THEN <<92, EscapeLetter(code)>>
    ELSE IF code \in ControlCodes
    THEN <<92, 120, HexDigitCode(code \div 16), HexDigitCode(code % 16)>>
    ELSE <<code>>

RECURSIVE SpecifiedEscapes(_)
SpecifiedEscapes(codes) ==
    IF Len(codes) = 0 THEN <<>>
    ELSE SpecifiedEscape(Head(codes)) \o SpecifiedEscapes(Tail(codes))

\* Every double quote of an escaped text follows an escaping backslash.
RECURSIVE QuotesEscaped(_)
QuotesEscaped(out) ==
    IF Len(out) = 0 THEN TRUE
    ELSE IF Head(out) = 92 THEN Len(out) >= 2 /\ QuotesEscaped(SubSeq(out, 3, Len(out)))
    ELSE Head(out) # 34 /\ QuotesEscaped(Tail(out))

\* C12: escapeString is total and maps backslash, double quote, newline,
\* carriage return, tab, backspace, form feed, vertical tab and NUL to their
\* two-character escapes, every other character below 0x20 or equal to 0x7F
\* to \xHH with two lowercase hex digits, and every other character to
\* itself; the escaped text holds no raw control character (so no line
\* break) and no unescaped double quote.
C12_EscapeStringMapping ==
    Done =>
        /\ result.kind = "return"
        /\ result.value = SpecifiedEscapes(root.v)
        /\ \A i \in 1..Len(result.value) : result.value[i] \notin ControlCodes
        /\ QuotesEscaped(result.value)

\* The escape of U+007F followed by a double quote.
C12_Witness ==
    /\ Done /\ root.v = <<127, 34>>
    /\ result.value = <<92, 120, 55, 102, 92, 34>>

\* The value of a lowercase hex digit given by its code unit, -1 if none.
HexValue(c) ==
    IF c >= 48 /\ c <= 57 THEN c - 48
    ELSE IF c >= 97 /\ c <= 102 THEN c - 87 ELSE 0 - 1

\* The code unit a two-character escape with this letter stands for.
UnescapeLetter(c) ==
    CASE c = 92 -> 92 [] c = 34 -> 34 [] c = 110 -> 10 [] c = 114 -> 13
      [] c = 116 -> 9 [] c = 98 -> 8 [] c = 102 -> 12 [] c = 118 -> 11
      [] c = 48 -> 0 [] OTHER -> 0 - 1

\* Reads an escaped text back, from left to right; <<-1>> where it is not
\* the escape of any string.
RECURSIVE Unescape(_)
Unescape(out) ==
    IF Len(out) = 0 THEN <<>>
    ELSE IF Head(out) # 92 THEN <<Head(out)>> \o Unescape(Tail(out))
    ELSE IF Len(out) < 2 THEN <<0 - 1>>
    ELSE IF out[2] = 120
    THEN IF Len(out) >= 4 /\ HexValue(out[3]) >= 0 /\ HexValue(out[4]) >= 0
         THEN <<16 * HexValue(out[3]) + HexValue(out[4])>>
              \o Unescape(SubSeq(out, 5, Len(out)))
         ELSE <<0 - 1>>
    ELSE <<UnescapeLetter(out[2])>> \o Unescape(SubSeq(out, 3, Len(out)))

\* C13: escapeString is injective. No two distinct control characters have
\* the same escape, and every string over the alphabet (backslash, double
\* quote, x, 0, 1, a, n and control characters) is read back from its
\* escaped form by one left-to-right reading, so two distinct strings never
\* have the same escaped form.
C13_EscapeStringInjective ==
    Done =>
        /\ Unescape(result.value) = root.v
        /\ Len(root.v) = 1 =>
              \A c \in ControlCodes \ {root.v[1]} : EscapeOfCode(c) # result.value

\* The four characters \x01 escaped: the text that is one backslash short
\* of the escape of U+0001.
C13_Witness ==
    /\ Done /\ root.v = <<92, 120, 48, 49>>
    /\ result.value = <<92, 92, 120, 48, 49>>
    /\ EscapeOfCode(1) = <<92, 120, 48, 49>>

-----------------------------------------------------------------------------
(* Claims about maxArrayItems and maxLength of the positional serializer.  *)

\* The longest array drawn; maxArrayItems is drawn from 0..MaxItems + 1.
MaxItems == 3

\* The object held by the arrays drawn (node 2).
ItemObject == ObjNode(<<"a">>, <<Str("t")>>)

\* An array of scalars and of references to ItemObject, as the root or as
\* the only property of the root.
ArrayHeaps ==
    UNION {{<<ArrNode(items), ItemObject, EmptyNode>>,
            <<ObjNode(<<"a">>, <<Ref(3)>>), ItemObject, ArrNode(items)>>} :
           items \in SeqsOf({Str("s"), Num(7), Null, Ref(2)}, 0, MaxItems)}

ArrayInputs ==
    {Input(h, Ref(1), NoOptions, [DefaultPargs EXCEPT !.maxArrayItems = m]) :
        h \in ArrayHeaps, m \in 0..(MaxItems + 1)}

InitArrays == \E inp \in ArrayInputs : CallState(inp, "p_start")

\* Positional calls on arrays longer and shorter than maxArrayItems.
SpecArrays == InitArrays /\ [][NextP]_vars

\* The array of the input, its indentation and its text in the output.
TheArray == IF heap[1].kind = "arr" THEN heap[1] ELSE heap[3]
ArrayIndent == IF heap[1].kind = "arr" THEN "" ELSE "  "
ArrayText ==
    IF heap[1].kind = "arr" THEN result.value
    ELSE SubSeq(result.value, Len("A: ") + 1, Len(result.value))

\* The omitted-count marker for N items.
OmittedMarker(N) == "... [" \o IntToString(N) \o " more items]"

\* The text is a LIST line of k items, with the marker for `omitted` items
\* if omitted > 0 and without a marker otherwise.
IsListOf(text, k, omitted) ==
    /\ StartsWith(text, "LIST: ")
    /\ LET listed == SubSeq(text, Len("LIST: ") + 1, Len(text))
           items == IF omitted > 0
                    THEN SubSeq(listed, 1, Len(listed) - Len(OmittedMarker(omitted)))
                    ELSE listed
       IN /\ omitted > 0 => EndsWith(listed, OmittedMarker(omitted))
          /\ ~Includes(items, "more items]")
          /\ IF k = 0 THEN items = "" ELSE items # "" /\ Len(Split(items, ",")) = k

\* The text is a block of the lines Item 1 .. Item k at `indent`, followed
\* by the marker line for `omitted` items if omitted > 0 and by no marker
\* line otherwise.
IsItemsOf(text, indent, k, omitted) ==
    LET lines == Split(text, "\n")
        own == FilterIdx(lines, {i \in 1..Len(lines) :
                                    StartsWith(lines[i], indent \o "Item ")
                                    \/ StartsWith(lines[i], indent \o "...")}, 1)
    IN /\ Len(own) = k + (IF omitted > 0 THEN 1 ELSE 0)
       /\ \A j \in 1..k : StartsWith(own[j], indent \o "Item " \o IntToString(j) \o ":")
       /\ omitted > 0 => /\ own[k + 1] = indent \o OmittedMarker(omitted)
                         /\ lines[Len(lines)] = own[k + 1]

\* C14: for every array of length n and every maxArrayItems = m >= 0,
\* exactly min(n, m) items are rendered, in LIST form and in Item k form
\* alike, and the marker ... [N more items] is present if and only if
\* n > m, with N = n - m.
C14_ArrayItemsLimited ==
    Done =>
        LET n == Len(TheArray.vals)
            m == pargs.maxArrayItems
        IN /\ result.kind = "return"
           /\ IF n = 0 THEN ArrayText = "empty"
              ELSE \/ IsListOf(ArrayText, Min(n, m), Max(n - m, 0))
                   \/ IsItemsOf(ArrayText, ArrayIndent, Min(n, m), Max(n - m, 0))

\* An array of three items, the first an object, under maxArrayItems = 2,
\* held by a property: two Item lines and the marker for one more.
C14_Witness ==
    /\ Done /\ heap[1].kind = "obj" /\ pargs.maxArrayItems = 2
    /\ heap[3].vals = <<Ref(2), Str("s"), Num(7)>>
    /\ result.value = "A:\n  Item 1:     A: t\n  Item 2: s\n  ... [1 more items]"

\* maxLength is drawn from 0..MaxLengthArg.
MaxLengthArg == 8

\* Strings of 2, 6 and 8 characters, none of them JSON.
LongStrings == {"ab", "abcdef", "abcdefgh"}

\* A string as the root, as a property value, as an item of an array of
\* scalars, and as an item of an array that also holds an object.
StringHeaps(s) ==
    {<<ObjNode(<<"a">>, <<Str(s)>>), ItemObject, EmptyNode>>,
     <<ArrNode(<<Str(s), Num(7)>>), ItemObject, EmptyNode>>,
     <<ArrNode(<<Str(s), Ref(2)>>), ItemObject, EmptyNode>>}

StringInputs ==
    {[inp EXCEPT !.pargs = [DefaultPargs EXCEPT !.maxLength = len]] :
        inp \in UNION {{Input(h, Ref(1), NoOptions, DefaultPargs) : h \in StringHeaps(s)}
                       \cup {Input(<<EmptyNode, EmptyNode, EmptyNode>>, Str(s),
                                   NoOptions, DefaultPargs)} : s \in LongStrings},
        len \in 0..MaxLengthArg}

InitStrings == \E inp \in StringInputs : CallState(inp, "p_start")

\* Positional calls on strings longer and shorter than maxLength.
SpecStrings == InitStrings /\ [][NextP]_vars

\* The string of the input.
TheString == IF root.t = "str" THEN root.v ELSE heap[1].vals[1].v

\* The rendering C15 gives to a string under maxLength.
CappedString(s, maxLength) ==
    IF Len(s) > maxLength THEN SubSeq(s, 1, maxLength) \o "... [truncated]" ELSE s

\* C15: every string scalar longer than maxLength is rendered as its first
\* maxLength characters followed by ... [truncated], wherever it occurs: as
\* the root, as an object property value, as an item of an all-primitive
\* array, or as an item of a mixed array; shorter strings are unchanged.
C15_StringsCappedEverywhere ==
    Done =>
        LET capped == CappedString(TheString, pargs.maxLength)
        IN /\ result.kind = "return"
           /\ result.value =
                 (IF root.t = "str" THEN capped
                  ELSE IF heap[1].kind = "obj" THEN "A: " \o capped
                  ELSE IF heap[1].vals[2].t = "ref"
                  THEN "Item 1: " \o capped \o "\nItem 2:   A: t"
                  ELSE "LIST: " \o capped \o ", 7")

-----------------------------------------------------------------------------
(* Claims about the layout of arrays and about empty containers            *)
(* (options-based serializer).                                             *)

\* The containers an array item is: empty ones, an object of one property,
\* an array of one number, an array that ignoreFalsy empties.
HeldNodes ==
    {EmptyNode, ArrNode(<<>>), ObjNode(<<"a">>, <<Str("s")>>),
     ArrNode(<<Num(1)>>), ArrNode(<<Null>>)}

\* The array (node 1) is the root, its items scalars and nodes 2 and 3; or
\* it is the value of the only property of the root (node 3).
LayoutHeaps ==
    {<<ArrNode(items), held, other>> :
        items \in SeqsOf({Num(7), Null, Ref(2), Ref(3)}, 1, MaxSlots),
        held \in HeldNodes, other \in {EmptyNode, ObjNode(<<"a">>, <<Str("s")>>)}}

LayoutInputs ==
    {Input(h, Ref(1), o, DefaultPargs) : h \in LayoutHeaps,
        o \in {[ignoreFalsy |-> f, arrayFormat |-> af] :
                  f \in BOOLEAN, af \in {"auto", "brackets", "indented"}}}
    \cup {Input(<<ArrNode(items), held, ObjNode(<<"k">>, <<Ref(1)>>)>>, Ref(3), o,
                DefaultPargs) :
             items \in SeqsOf({Num(7), Null, Ref(2)}, 1, MaxSlots), held \in HeldNodes,
             o \in {[ignoreFalsy |-> f, arrayFormat |-> af] :
                       f \in BOOLEAN, af \in {"auto", "brackets", "indented"}}}

InitLayout == \E inp \in LayoutInputs : CallState(inp, "o_start")

\* Options-based calls on arrays of scalars, empty and non-empty containers.
SpecLayout == InitLayout /\ [][NextO]_vars

\* The items of the array that ignoreFalsy keeps.
KeptItems ==
    FilterIdx(heap[1].vals,
              {i \in 1..Len(heap[1].vals) :
                  ~(BuildCfg(options).ignoreFalsy /\ heap[1].vals[i] = Null)}, 1)

\* The depth of the array and its text in the output: the whole body, or
\* what follows the key k and the space or line break after it.
ArrayDepth == IF root = Ref(1) THEN 0 ELSE 1
LayoutText ==
    IF root = Ref(1) THEN BodyOf(result.value)
    ELSE SubSeq(BodyOf(result.value), Len("k ") + 1, Len(BodyOf(result.value)))

\* The one-line text of an item of the arrays drawn, under `auto`.
ItemTextAuto(item) ==
    IF item = Num(7) THEN "7"
    ELSE IF item = Null THEN "null"
    ELSE LET node == heap[item.v]
         IN CASE node = EmptyNode -> "EmptyObject"
              [] node = ArrNode(<<>>) -> "EmptyArray"
              [] node = ObjNode(<<"a">>, <<Str("s")>>) -> "a \"s\""
              [] node = ArrNode(<<Num(1)>>) -> "[1]"
              [] node = ArrNode(<<Null>>) ->
                    IF BuildCfg(options).ignoreFalsy THEN "EmptyArray" ELSE "[null]"

\* The bracket form of the kept items.
BracketForm ==
    "[" \o Join([i \in 1..Len(KeptItems) |-> ItemTextAuto(KeptItems[i])], ", ") \o "]"

\* The indented block of the kept items: one child per line between the
\* brackets at the indentation of the array.
IndentedForm ==
    LET indent == Repeat("  ", ArrayDepth)
    IN Join(<<indent \o "[">>
            \o [i \in 1..Len(KeptItems) |-> indent \o "  " \o ItemTextAuto(KeptItems[i])]
            \o <<indent \o "]">>, "\n")

IsScalarItem(item) == item.t # "ref"
IsEmptyItem(item) == item.t = "ref" /\ ItemTextAuto(item) \in {"EmptyArray", "EmptyObject"}

\* C16 (as stated): with arrayFormat = 'auto' an array is rendered in
\* bracket form exactly when every kept item is a scalar or an empty
\* container, and as an indented block otherwise.
C16_BracketsForScalarsAndEmptyContainers ==
    (Done /\ BuildCfg(options).arrayFormat = "auto" /\ Len(KeptItems) > 0) =>
        /\ ReturnedText
        /\ LayoutText =
              (IF \A i \in 1..Len(KeptItems) :
                     IsScalarItem(KeptItems[i]) \/ IsEmptyItem(KeptItems[i])
               THEN BracketForm ELSE IndentedForm)

\* C16 (amended): with arrayFormat = 'auto' an array with at least one kept
\* item is rendered in bracket form exactly when every kept item is a
\* scalar; an array with an object or array among its kept items, empty or
\* not, is rendered as an indented block with one child per line.
C16_BracketsForScalarsOnly ==
    (Done /\ BuildCfg(options).arrayFormat = "auto" /\ Len(KeptItems) > 0) =>
        /\ ReturnedText
        /\ LayoutText =
              (IF \A i \in 1..Len(KeptItems) : IsScalarItem(KeptItems[i])
               THEN BracketForm ELSE IndentedForm)

\* An array of a number and an empty object under 'auto', held by a
\* property: an indented block of two lines.
C16_Witness ==
    /\ Done /\ root = Ref(3) /\ options.arrayFormat = "auto"
    /\ heap[1].vals = <<Num(7), Ref(2)>> /\ heap[2] = EmptyNode
    /\ BodyOf(result.value) = "k\n  [\n    7\n    EmptyObject\n  ]"

\* C17: with arrayFormat = 'brackets' every array is rendered on a single
\* line: the rendering of an array never contains a newline, even when its
\* items are objects or arrays.
C17_BracketArraysOnOneLine ==
    (Done /\ ReturnedText /\ root = Ref(1) /\ heap[1].kind = "arr"
          /\ BuildCfg(options).arrayFormat = "brackets") =>
        ~Includes(BodyOf(result.value), "\n")

\* Containers without kept items: empty ones, and ones holding nulls only.
EmptiedNodes ==
    {EmptyNode, ArrNode(<<>>), ObjNode(<<"a">>, <<Null>>), ArrNode(<<Null, Null>>)}

\* A container that holds the next node and nothing else.
HolderNodes(n) == {ObjNode(<<"h">>, <<Ref(n)>>), ArrNode(<<Ref(n)>>)}

\* The container without kept items is the root, or is held by the root, or
\* is held by a container that the root holds.
EmptiedHeaps ==
    {<<e, EmptyNode, EmptyNode>> : e \in EmptiedNodes}
    \cup {<<h, e, EmptyNode>> : h \in HolderNodes(2), e \in EmptiedNodes}
    \cup {<<h, g, e>> : h \in HolderNodes(2), g \in HolderNodes(3), e \in EmptiedNodes}

EmptiedInputs ==
    {Input(h, Ref(1), o, DefaultPargs) : h \in EmptiedHeaps,
        o \in {[maxDepth |-> d, ignoreFalsy |-> f, arrayFormat |-> af] :
                  d \in 0..MaxDepthArg, f \in BOOLEAN,
                  af \in {"auto", "brackets", "indented"}}}

InitEmptied == \E inp \in EmptiedInputs : CallState(inp, "o_start")

\* Options-based calls on containers without kept items at depths 0 to 2.
SpecEmptied == InitEmptied /\ [][NextO]_vars

\* The innermost node of the input and the holders above it.
Innermost == CHOOSE n \in Nodes : heap[n] \in EmptiedNodes /\ (n = 1 \/ heap[n - 1] \in HolderNodes(n))
Holders == 1..(Innermost - 1)

\* It has no kept item: it is empty, or ignoreFalsy drops its nulls.
HasNoKeptItem == Len(heap[Innermost].vals) = 0 \/ BuildCfg(options).ignoreFalsy

EmptyToken == IF heap[Innermost].kind = "arr" THEN "EmptyArray" ELSE "EmptyObject"

\* The depth at which the innermost node is formatted: one more per holder,
\* except for arrays in bracket form.
InnermostDepth ==
    Cardinality({n \in Holders :
                    ~(heap[n].kind = "arr" /\ BuildCfg(options).arrayFormat = "brackets")})

\* The text is the token alone on one line, after the key of its holder and
\* within the brackets of its holders if any.
IsTokenLine(line, token) ==
    LET text == SubSeq(line, LeadingSpaces(line) + 1, Len(line))
    IN \E before \in {"", "h ", "[", "h [", "[[", "[h ", "[h ["},
          after \in {"", "]", "]]"} : text = before \o token \o after

-----------------------------------------------------------------------------
(* C19: roots that are not objects or arrays.                              *)

\* Roots of every type: numbers, booleans, null, undefined, strings that do
\* not parse, strings that parse to a primitive and to an empty container.
PrimitiveRoots ==
    {Num(42), Num(0), Bool(TRUE), Bool(FALSE), Null, Undefined,
     Str("hello world"), Str(""), Str("12"), Str("true"), Str("[]"), Str("{}")}

RootInputs ==
    {Input([n \in Nodes |-> EmptyNode], x, NoOptions,
           [DefaultPargs EXCEPT !.maxLength = l]) :
        x \in PrimitiveRoots, l \in {MaxLengthArg, DefaultPargs.maxLength}}
    \cup {Input(h, Ref(1), NoOptions, DefaultPargs) : h \in ArrayHeaps}

InitRoots == \E inp \in RootInputs : CallState(inp, "p_start")

\* Positional calls on primitive roots, root strings, objects and arrays.
SpecRoots == InitRoots /\ [][NextP]_vars

\* The root is neither an object nor an array, nor a string that parses as
\* JSON to one.
IsRejectedRoot ==
    \/ root.t \in {"num", "bool", "null", "undefined"}
    \/ root.t = "str" /\ ParseJson(root.v).t \notin {"arr", "obj"}

RejectionMessage == "jsonToLLMString should only handle JSON objects or arrays"

\* C19: for a root that is a number, a boolean, null, undefined, or a string
\* that does not parse as JSON to an object or array, the call throws an
\* error whose message starts with 'jsonToLLMString should only handle JSON
\* objects or arrays' and returns no rendering.
C19_PrimitiveRootsRejected ==
    (Done /\ IsRejectedRoot) =>
        /\ result.kind = "throw"
        /\ StartsWith(result.value, RejectionMessage)

-----------------------------------------------------------------------------
(* C20: configuration values outside their domain.                         *)

\* Negative values down to -MaxNegative.
MaxNegative == 3

ConfigOptions ==
    {NoOptions}
    \cup {[maxDepth |-> 0 - d] : d \in 1..MaxNegative}
    \cup {[maxChars |-> Num(0 - m)] : m \in 1..MaxNegative}

ConfigInputs ==
    {Input(h, Ref(1), o, DefaultPargs) : h \in BudgetHeaps, o \in ConfigOptions}

InitConfig == \E inp \in ConfigInputs : CallState(inp, "o_start")

\* Options-based calls with a negative maxDepth or maxChars.
SpecConfig == InitConfig /\ [][NextO]_vars

\* maxDepth or maxChars is negative.
IsInvalidConfig ==
    \/ BuildCfg(options).maxDepth < 0
    \/ IsFinite(BuildCfg(options).maxChars) /\ BuildCfg(options).maxChars.v < 0

\* C20: a configuration value outside its valid domain (a negative maxDepth,
\* a negative maxChars) makes the call fail at call start, before any node
\* is formatted; it is never accepted or clamped to produce a result.
C20_InvalidConfigRejected ==
    IsInvalidConfig =>
        /\ full = ""
        /\ Done => result.kind = "throw"

-----------------------------------------------------------------------------
(* C21: information content of the output.                                 *)

\* Objects over the keys a and b, with a number or a string as each value.
RecordNodes ==
    {EmptyNode}
    \cup {ObjNode(<<k>>, <<v>>) : k \in {"a", "b"}, v \in {Num(1), Str("1")}}
    \cup {ObjNode(<<"a", "b">>, <<v, w>>) : v, w \in {Num(1), Str("1")}}

\* Arrays of one or two such objects.
RecordHeaps ==
    {<<ArrNode(<<Ref(2)>>), r, EmptyNode>> : r \in RecordNodes}
    \cup {<<ArrNode(<<Ref(2), Ref(3)>>), r, s>> : r, s \in RecordNodes}

RecordOptions ==
    {[ignoreFalsy |-> FALSE, sortKeys |-> "none", arrayFormat |-> af] :
        af \in {"auto", "brackets", "indented"}}

RecordInputs ==
    {Input(h, Ref(1), o, DefaultPargs) : h \in RecordHeaps, o \in RecordOptions}

InitRecords == \E inp \in RecordInputs : CallState(inp, "o_start")

\* Options-based calls on arrays of small objects, nothing filtered or sorted.
SpecRecords == InitRecords /\ [][NextO]_vars

\* What the call returns for another heap under the options of this call.
OutputFor(h) ==
    FullText(formatValue(NormalizeData(h, Ref(1)), 0, BuildCfg(options)))

\* C21: with ignoreFalsy = false, sortKeys = 'none', maxChars unbounded and
\* the tree within maxDepth, two input trees that differ in structure (in
\* how key/value pairs are grouped into the objects of an array) or in a
\* scalar value never produce the same output string.
C21_DistinctTreesDistinctOutputs ==
    (Done /\ ReturnedText) =>
        \A h \in RecordHeaps :
            NormalizeData(h, Ref(1)) # normalized => OutputFor(h) # result.value

-----------------------------------------------------------------------------
(* C22: the shape of a truncated output.                                   *)

\* maxChars is finite and the full output is longer.
TruncationApplies ==
    /\ IsFinite(BuildCfg(options).maxChars)
    /\ Len(full) > BuildCfg(options).maxChars.v

\* C22: whenever truncation applies, the result is a prefix of the
\* untruncated output immediately followed by the complete footer
\* "\n[Output truncated at <maxChars> chars]"; the footer is never split or
\* shortened and no other text is inserted.
C22_TruncatedIsPrefixThenFooter ==
    (Done /\ ReturnedText /\ TruncationApplies) =>
        \E n \in 0..Len(full) :
            result.value = SubSeq(full, 1, n) \o "\n[Output truncated at "
                               \o IntToString(BuildCfg(options).maxChars.v) \o " chars]"

\* A call truncated at 40 characters keeps the first 9 of the full output.
C22_Witness ==
    /\ Done /\ ReturnedText /\ TruncationApplies
    /\ BuildCfg(options).maxChars.v = 40
    /\ Len(result.value) = 40
    /\ SubSeq(result.value, 1, 10) = "#converte\n"

-----------------------------------------------------------------------------
(* C23: calls made one after the other on the same data.                   *)

\* Calls per program run.
MaxCalls == 3

\* A self-referencing object, an object holding one object twice, a chain
\* of an object, an array and an object, and an array holding itself.
CallHeaps ==
    {<<ObjNode(<<"a">>, <<Ref(1)>>), EmptyNode, EmptyNode>>,
     <<ObjNode(<<"a", "b">>, <<Ref(2), Ref(2)>>), ObjNode(<<"a">>, <<Str("s")>>), EmptyNode>>,
     <<ObjNode(<<"a">>, <<Ref(2)>>), ArrNode(<<Ref(3)>>), ObjNode(<<"b">>, <<Str("s")>>)>>,
     <<ArrNode(<<Ref(2), Ref(1)>>), ObjNode(<<"a">>, <<Ref(3)>>), EmptyNode>>}

\* The arguments of one call: the data and maxDepth.
CallRoots == {Ref(n) : n \in Nodes}
CallDepths == {1, DefaultPargs.maxDepth}

CallInputs ==
    {Input(h, x, NoOptions, [DefaultPargs EXCEPT !.maxDepth = d]) :
        h \in CallHeaps, x \in CallRoots, d \in CallDepths}

InitCalls == \E inp \in CallInputs : CallState(inp, "p_start")

\* The caller, after a call has returned, calls again on the same graph.
\* JavaScript runs each call to completion, so calls follow one another.
P_NextCall ==
    /\ pc = "done" /\ Len(calls) + 1 < MaxCalls
    /\ calls' = Append(calls, [root |-> root, pargs |-> pargs, result |-> result])
    /\ \E x \in CallRoots, d \in CallDepths :
           /\ root' = x
           /\ pargs' = [pargs EXCEPT !.maxDepth = d]
    /\ pc' = "p_start"
    /\ result' = NoResult
    /\ UNCHANGED <<heap, options, stack, visited, normalized, full>>

NextCalls == NextP \/ P_NextCall

\* Sequences of positional calls on one object graph.
SpecCalls == InitCalls /\ [][NextCalls]_vars

-----------------------------------------------------------------------------
(* C24: the text held during a call with a budget.                         *)

\* C24: with a finite maxChars the budget is enforced during composition:
\* at no point of the call does the length of the text accumulated so far
\* exceed maxChars plus the length of the truncation footer.
C24_BudgetEnforcedIncrementally ==
    IsFinite(BuildCfg(options).maxChars) =>
        Len(full) <= BuildCfg(options).maxChars.v + Len(Footer(BuildCfg(options)))

-----------------------------------------------------------------------------
(* C25: the scope of cycle tracking.                                       *)

\* The containers of the active invocations: the path from the root to the
\* node being formatted.
ActivePath == {stack[i].data : i \in {j \in 1..Len(stack) : IsObject(stack[j].data)}}

\* The containers whose formatting has started and not yet returned.
ExpandedPath ==
    {stack[i].data : i \in {j \in 1..Len(stack) : stack[j].st \in {"items", "props"}}}

\* C25: cycle tracking is ancestor-scoped: at every moment of the traversal
\* the visited set holds exactly the objects and arrays on the path from the
\* root to the node being formatted; a container is added when its
\* formatting starts and is no longer in the set once it has returned.
C25_VisitedIsAncestorPath ==
    (pc = "p_run" /\ IsObject(root)) =>
        /\ visited \subseteq ActivePath
        /\ ExpandedPath \subseteq visited

-----------------------------------------------------------------------------
(* C26: inline properties and properties with a block.                     *)

\* The text holds `block` as whole lines.
HasLines(text, block) == Includes("\n" \o text \o "\n", "\n" \o block \o "\n")

\* The rendering of the value of a property of the root object.
RenderedProperty(val) == formatValue(val, 1, BuildCfg(options))

IsSingleLine(rendered) == ~Includes(rendered, "\n")

\* The rendered value is single-line and is a scalar, an empty-container
\* marker or a bracket-style array.
IsInlineKind(val, rendered) ==
    /\ IsSingleLine(rendered)
    /\ \/ ~IsContainer(val)
       \/ rendered \in {"EmptyArray", "EmptyObject"}
       \/ val.t = "arr" /\ rendered # "[Max depth reached]"

\* The same, or the depth marker that stands for an array.
IsInlineKindOrArrayMarker(val, rendered) ==
    IsInlineKind(val, rendered) \/ (val.t = "arr" /\ rendered = "[Max depth reached]")

\* Property j of the root object is rendered inline (on one line with its
\* key) if `inline`, and otherwise as its key alone on a line followed by
\* the lines of its value.
PropertyRenderedAs(j, inline) ==
    LET key == normalized.k[j]
        rendered == RenderedProperty(normalized.v[j])
        body == BodyOf(result.value)
    IN IF inline
       THEN HasLines(body, key \o " " \o rendered) /\ ~HasLines(body, key)
       ELSE HasLines(body, key \o "\n" \o rendered)

RootIsObject == Done /\ ReturnedText /\ normalized.t = "obj"

-----------------------------------------------------------------------------
(* C27: the depth of the recursion.                                        *)

\* Invocation i of the stack runs with indentation i - 1: every recursive
\* call is made with indentation + 1.
IndentationsAscend == \A i \in 1..Len(stack) : stack[i].indentation = i - 1

\* C27: on an object or array root with indentation 0, the number of
\* simultaneously active (nested) invocations never exceeds maxDepth + 2,
\* for every input, cyclic ones included: every recursive call is made with
\* indentation + 1 and a call with indentation > maxDepth returns without
\* recursing.
C27_ActiveInvocationsBounded ==
    (IsObject(root) /\ pargs.indentation = 0) =>
        /\ Len(stack) <= pargs.maxDepth + 2
        /\ IndentationsAscend

\* Three nested invocations under maxDepth = 1 on a chain of three
\* containers: the innermost has returned the depth marker.
C27_Witness ==
    /\ IsObject(root) /\ pargs.maxDepth = 1
    /\ Len(stack) = 3
    /\ Top.st = "ret" /\ Top.ret = MaxDepthMarker
    /\ Top.data # root

-----------------------------------------------------------------------------
(* C28: null and booleans at every position.                               *)

NullAndBooleans == {Null, Bool(TRUE), Bool(FALSE)}
Companions == {Num(7), Str("s"), Null, Bool(TRUE)}

\* A null or a boolean as a property value, as an item of an array of
\* primitives and as an item of a mixed array, next to another primitive.
PositionHeaps(v, w) ==
    {<<ObjNode(<<"a", "b">>, <<v, w>>), ItemObject, EmptyNode>>,
     <<ArrNode(<<v, w>>), ItemObject, EmptyNode>>,
     <<ArrNode(<<v, w, Ref(2)>>), ItemObject, EmptyNode>>}

PositionInputs ==
    UNION {{Input(h, Ref(1), NoOptions, DefaultPargs) : h \in PositionHeaps(v, w)} :
              v \in NullAndBooleans, w \in Companions}
    \cup {Input(<<EmptyNode, EmptyNode, EmptyNode>>, v, NoOptions, DefaultPargs) :
             v \in NullAndBooleans}

InitPositions == \E inp \in PositionInputs : CallState(inp, "p_start")

\* Positional calls with a null or a boolean at each position.
SpecPositions == InitPositions /\ [][NextP]_vars

\* The rendering C28 gives to a primitive.
ConsistentText(v) ==
    CASE v.t = "null" -> "none"
      [] v.t = "bool" -> IF v.v THEN "yes" ELSE "no"
      [] v.t = "num" -> "7"
      [] OTHER -> v.v

\* C28: every null value is rendered as none and every boolean as yes or
\* no, whatever its position: root, object property value, item of an
\* all-primitive array, item of a mixed array.
C28_NullAndBooleansConsistent ==
    Done =>
        /\ result.kind = "return"
        /\ result.value =
              (IF ~IsObject(root) THEN ConsistentText(root)
               ELSE LET v == ConsistentText(heap[1].vals[1])
                        w == ConsistentText(heap[1].vals[2])
                    IN IF heap[1].kind = "obj" THEN "A: " \o v \o "\nB: " \o w
                       ELSE IF Len(heap[1].vals) = 3
                       THEN "Item 1: " \o v \o "\nItem 2: " \o w \o "\nItem 3:   A: t"
                       ELSE "LIST: " \o v \o ", " \o w)

-----------------------------------------------------------------------------
(* C29: labels of the keys of one object.                                  *)

\* Keys in and out of labelMap, in several cases.
LabelKeys == {"a", "A", "b", "path", "Path", "file", "name"}

\* An object of two distinct keys with the same value, as the root and as
\* the item of an array.
LabelHeaps ==
    UNION {{<<ObjNode(<<k1, k2>>, <<Str("s"), Str("s")>>), EmptyNode, EmptyNode>>,
            <<ArrNode(<<Ref(2)>>), ObjNode(<<k1, k2>>, <<Str("s"), Str("s")>>), EmptyNode>>} :
           <<k1, k2>> \in {p \in LabelKeys \X LabelKeys : p[1] # p[2]}}

LabelInputs == {Input(h, Ref(1), NoOptions, DefaultPargs) : h \in LabelHeaps}

InitLabels == \E inp \in LabelInputs : CallState(inp, "p_start")

\* Positional calls on objects of two distinct keys.
SpecLabels == InitLabels /\ [][NextP]_vars

\* The label of a property line: its text up to the colon.
LabelOf(line) ==
    SubSeq(line, LeadingSpaces(line) + 1, FirstIndexOf(line, ":") - 1)

\* C29: two distinct keys of the same object are always rendered with two
\* distinct labels: the label lookup never maps two different keys to the
\* same label.
C29_DistinctKeysDistinctLabels ==
    (Done /\ result.kind = "return") =>
        LET lines == Split(result.value, "\n")
            n == Len(lines)
        IN /\ n >= 2
           /\ LabelOf(lines[n - 1]) # LabelOf(lines[n])

-----------------------------------------------------------------------------
(* C30: two spaces per level.                                              *)

\* The line without its leading spaces.
Unindented(line) == SubSeq(line, LeadingSpaces(line) + 1, Len(line))

\* Node n of a chain is located at depth n - 1 and is rendered if that depth
\* is within the limit.
RenderedNodes(kind) ==
    {n \in Reachable(heap, root) :
        heap[n].kind = kind /\ n - 1 <= BuildCfg(options).maxDepth}

\* The array is rendered as an indented block.
IsIndentedArray(n) ==
    \/ BuildCfg(options).arrayFormat = "indented"
    \/ BuildCfg(options).arrayFormat = "auto" /\ HasRef(heap[n])

\* Every line carrying a key of the object at depth d begins with exactly
\* 2 * d spaces followed directly by the key.
KeyLinesIndented(lines) ==
    \A n \in RenderedNodes("obj") : \A j \in 1..Len(heap[n].keys) :
        \A i \in 1..Len(lines) :
            Includes(lines[i], heap[n].keys[j]) =>
                /\ LeadingSpaces(lines[i]) = 2 * (n - 1)
                /\ StartsWith(Unindented(lines[i]), heap[n].keys[j])

\* Every line of a scalar item of the indented array at depth d begins with
\* exactly 2 * (d + 1) spaces.
ItemLinesIndented(lines) ==
    \A n \in {m \in RenderedNodes("arr") : IsIndentedArray(m)} :
        \A i \in 1..Len(lines) :
            Includes(lines[i], ScalarAt(n).v) => LeadingSpaces(lines[i]) = 2 * n

\* C30: the output uses 2-space indents per level: for every arrayFormat
\* value, every line that carries a key of an object at depth d begins with
\* exactly 2 * d spaces followed directly by the key, and every item line
\* of an indented array at depth d begins with exactly 2 * (d + 1) spaces.
C30_TwoSpacesPerLevel ==
    (Done /\ ReturnedText) =>
        /\ KeyLinesIndented(Split(BodyOf(result.value), "\n"))
        /\ ItemLinesIndented(Split(BodyOf(result.value), "\n"))

=============================================================================
